---- MODULE Spec2Model ----
(***************************************************************************)
(* Smart Inventory Management System: the in-memory product store, the     *)
(* inventory log, the access policy and the request handlers that change   *)
(* them, as a state machine.                                               *)
(*                                                                         *)
(* A request is served by a chain authenticate -> authorize -> handler.    *)
(* A handler is an async function: the code between two awaits runs        *)
(* without interruption, and at every await another request may run.  One  *)
(* action models one such segment.  The handlers are modelled as invoked   *)
(* on their controller class, so that this.<schema> resolves to the        *)
(* class's static schema.                                                  *)
(*                                                                         *)
(* Time is counted in minutes since 2024-01-01T00:00Z.  Prices are in      *)
(* cents.                                                                  *)
(***************************************************************************)
EXTENDS Integers, Sequences, FiniteSets, TLC

VARIABLES
  products,   \* MockProductService.products
  logs,       \* MockInventoryLogService.logs
  now,        \* the clock read by new Date() and Date.now()
  req,        \* the requests in flight: per slot, the handler's position and locals
  hist,       \* history: per slot, the stores as the handler was entered, and
              \* whether the request has changed a store
  check,      \* the last evaluation of the access policy made on its own
  users,      \* MockUserService.users
  heap,       \* the two stores as objects: the Date objects by address, and the
              \* product and log objects whose date fields hold an address
  held,       \* what a direct caller of the stores was returned and still holds
  limiter     \* process.env.NODE_ENV, the hit counts of reportLimiter by client,
              \* and history: the report requests of the current hour

vars == <<products, logs, now, req, hist, check, users, heap, held, limiter>>

(***************************************************************************)
(* Bounds                                                                  *)
(***************************************************************************)
MaxReq == 2        \* requests in flight at once
MaxLogs == 6       \* log entries (4 seeded)
MaxProducts == 6   \* products (5 seeded)
MaxTicks == 1      \* clock ticks after start
MaxRoles == 3      \* length of a list of required roles
MaxDates == 16     \* Date objects (14 seeded)
MaxReports == 12   \* report requests within one hour
MaxHours == 1      \* hours that pass after start
MaxDays == 2       \* days that pass after start
ClockStart == 100000

Slots == 1..MaxReq

(***************************************************************************)
(* Values                                                                  *)
(***************************************************************************)
Null == [null |-> TRUE]

\* new Date('2024-01-dd') and new Date('2024-01-ddThh:mm:00Z')
JanDate(d, h, m) == ((d - 1) * 24 + h) * 60 + m

\* a JSON value of a request body: a number or a string
Num(n) == [k |-> "num", n |-> n]
Str(s) == [k |-> "str", s |-> s]

\* an optional value: undefined, or the value given
Undefined == <<>>
Given(x) == <<x>>

\* {...a, ...b}
Spread(a, b) ==
  [f \in (DOMAIN a) \cup (DOMAIN b) |-> IF f \in DOMAIN b THEN b[f] ELSE a[f]]

\* Array.prototype.findIndex on the _id field; 0 stands for -1
FindIndexById(arr, id) ==
  IF \E i \in 1..Len(arr) : arr[i]._id = id
  THEN CHOOSE i \in 1..Len(arr) :
         /\ arr[i]._id = id
         /\ \A j \in 1..(i - 1) : arr[j]._id # id
  ELSE 0

\* Array.prototype.splice(index, 1)
Splice(arr, index) ==
  SubSeq(arr, 1, index - 1) \o SubSeq(arr, index + 1, Len(arr))

(***************************************************************************)
(* enum UserRole and AuthUtils                                             *)
(***************************************************************************)
ADMIN == "admin"
MANAGER == "manager"
VIEWER == "viewer"
UserRole == {ADMIN, MANAGER, VIEWER}

roleHierarchy == (VIEWER :> 1) @@ (MANAGER :> 2) @@ (ADMIN :> 3)

\* fault variant: a strict comparison of the levels
hasRole_Strict(userRole, requiredRole) ==
  roleHierarchy[userRole] > roleHierarchy[requiredRole]

hasRole(userRole, requiredRole) ==
  roleHierarchy[userRole] >= roleHierarchy[requiredRole]

\* fault variant: every() in place of some()
hasAnyRole_Every(userRole, requiredRoles) ==
  \A i \in 1..Len(requiredRoles) : roleHierarchy[userRole] >= roleHierarchy[requiredRoles[i]]

\* requiredRoles is an array
hasAnyRole(userRole, requiredRoles) ==
  \E i \in 1..Len(requiredRoles) : hasRole(userRole, requiredRoles[i])

(***************************************************************************)
(* MockProductService                                                      *)
(***************************************************************************)
SeedProducts == <<
  [_id |-> "prod_001", name |-> "Laptop Dell XPS 15", sku |-> "DX15-2025",
   price |-> 120099, category |-> "Electronics", stock |-> 5, minStock |-> 10,
   description |-> "High-performance laptop for professionals",
   warehouseId |-> "wh_main",
   createdAt |-> JanDate(1, 0, 0), updatedAt |-> JanDate(1, 0, 0)],
  [_id |-> "prod_002", name |-> "Wireless Mouse", sku |-> "WM-2025",
   price |-> 2599, category |-> "Electronics", stock |-> 3, minStock |-> 15,
   description |-> "Ergonomic wireless mouse",
   warehouseId |-> "wh_main",
   createdAt |-> JanDate(1, 0, 0), updatedAt |-> JanDate(1, 0, 0)],
  [_id |-> "prod_003", name |-> "Office Chair", sku |-> "OC-2025",
   price |-> 19999, category |-> "Furniture", stock |-> 25, minStock |-> 5,
   description |-> "Comfortable ergonomic office chair",
   warehouseId |-> "wh_main",
   createdAt |-> JanDate(1, 0, 0), updatedAt |-> JanDate(1, 0, 0)],
  [_id |-> "prod_004", name |-> "Printer Paper A4", sku |-> "PP-A4-500",
   price |-> 899, category |-> "Office Supplies", stock |-> 150, minStock |-> 20,
   description |-> "500 sheets of premium A4 printer paper",
   warehouseId |-> "wh_storage",
   createdAt |-> JanDate(1, 0, 0), updatedAt |-> JanDate(1, 0, 0)],
  [_id |-> "prod_005", name |-> "Coffee Maker", sku |-> "CM-DELUXE",
   price |-> 8999, category |-> "Appliances", stock |-> 12, minStock |-> 8,
   description |-> "12-cup programmable coffee maker",
   warehouseId |-> "wh_main",
   createdAt |-> JanDate(1, 0, 0), updatedAt |-> JanDate(1, 0, 0)] >>

\* find(p => p._id === id), returned as a copy or null
\* fault variant: a miss yields the first product instead of null
ProductFindById_FirstOnMiss(ps, id) ==
  LET index == FindIndexById(ps, id)
  IN IF index = 0 THEN (IF ps = <<>> THEN Null ELSE ps[1]) ELSE ps[index]

ProductFindById(ps, id) ==
  LET index == FindIndexById(ps, id)
  IN IF index = 0 THEN Null ELSE ps[index]

\* fault variant: the SKU is compared with the _id
ProductFindBySku_MatchesId(ps, sku) ==
  IF \E i \in 1..Len(ps) : ps[i]._id = sku
  THEN ps[CHOOSE i \in 1..Len(ps) : ps[i]._id = sku]
  ELSE Null

\* find(p => p.sku === sku), returned as a copy or null
ProductFindBySku(ps, sku) ==
  IF \E i \in 1..Len(ps) : ps[i].sku = sku
  THEN ps[CHOOSE i \in 1..Len(ps) :
            /\ ps[i].sku = sku
            /\ \A j \in 1..(i - 1) : ps[j].sku # sku]
  ELSE Null

\* findAll: map(product => ({ ...product }))
ProductFindAll(ps) == ps

\* product.minStock || 0
MinStockOrZero(p) == IF "minStock" \in DOMAIN p THEN p.minStock ELSE 0

\* fault variant: a product at its minimum is not low
ProductFindLowStock_BelowOnly(ps) ==
  LET Low(p) == p.stock < MinStockOrZero(p) IN SelectSeq(ps, Low)

\* findLowStock: filter(product => product.stock <= (product.minStock || 0))
ProductFindLowStock(ps) ==
  LET Low(p) == p.stock <= MinStockOrZero(p) IN SelectSeq(ps, Low)

\* String.prototype.toLowerCase
toLowerCase(str) ==
  CASE str = "Electronics" -> "electronics"
    [] str = "Furniture" -> "furniture"
    [] str = "Office Supplies" -> "office supplies"
    [] str = "Appliances" -> "appliances"
    [] str = "ELECTRONICS" -> "electronics"
    [] OTHER -> str

\* findByCategory: the categories are compared in lower case
ProductFindByCategory(ps, category) ==
  LET InCategory(p) == toLowerCase(p.category) = toLowerCase(category)
  IN SelectSeq(ps, InCategory)

\* create: the new array and the value returned
ProductCreate(ps, productData, t) ==
  LET newProduct == Spread(Spread([_id |-> "prod_" \o ToString(t)], productData),
                           [createdAt |-> t, updatedAt |-> t])
  IN [store |-> Append(ps, newProduct), result |-> newProduct]

\* fault variant: the stored product is replaced, not merged
ProductUpdate_Replace(ps, id, updateData, t) ==
  LET index == FindIndexById(ps, id)
  IN IF index = 0
     THEN [store |-> ps, result |-> Null]
     ELSE LET replaced == Spread(Spread([_id |-> id], updateData), [updatedAt |-> t])
          IN [store |-> [ps EXCEPT ![index] = replaced], result |-> replaced]

\* update: merges updateData over the stored product
ProductUpdate(ps, id, updateData, t) ==
  LET index == FindIndexById(ps, id)
  IN IF index = 0
     THEN [store |-> ps, result |-> Null]
     ELSE LET merged == Spread(Spread(ps[index], updateData), [updatedAt |-> t])
          IN [store |-> [ps EXCEPT ![index] = merged], result |-> merged]

\* updateStock: writes stock and updatedAt of the stored product
\* fault variant: the stock is written to a copy, the array keeps the old product
ProductUpdateStock_CopyOnly(ps, id, newStock, t) ==
  LET index == FindIndexById(ps, id)
  IN IF index = 0
     THEN [store |-> ps, result |-> Null]
     ELSE [store |-> ps,
           result |-> [ps[index] EXCEPT !.stock = newStock, !.updatedAt = t]]

\* fault variant: the write also sets createdAt
ProductUpdateStock_TouchCreatedAt(ps, id, newStock, t) ==
  LET index == FindIndexById(ps, id)
  IN IF index = 0
     THEN [store |-> ps, result |-> Null]
     ELSE LET written == [ps[index] EXCEPT !.stock = newStock, !.updatedAt = t,
                                           !.createdAt = t]
          IN [store |-> [ps EXCEPT ![index] = written], result |-> written]

\* fault variant: the write puts the other products back to their seeded values
ProductUpdateStock_ResetOthers(ps, id, newStock, t) ==
  LET index == FindIndexById(ps, id)
  IN IF index = 0
     THEN [store |-> ps, result |-> Null]
     ELSE LET written == [ps[index] EXCEPT !.stock = newStock, !.updatedAt = t]
          IN [store |-> [i \in 1..Len(ps) |->
                           IF i = index THEN written
                           ELSE IF i <= Len(SeedProducts) THEN SeedProducts[i] ELSE ps[i]],
              result |-> written]

ProductUpdateStock(ps, id, newStock, t) ==
  LET index == FindIndexById(ps, id)
  IN IF index = 0
     THEN [store |-> ps, result |-> Null]
     ELSE LET written == [ps[index] EXCEPT !.stock = newStock, !.updatedAt = t]
          IN [store |-> [ps EXCEPT ![index] = written], result |-> written]

\* delete
ProductDelete(ps, id) ==
  LET index == FindIndexById(ps, id)
  IN IF index = 0
     THEN [store |-> ps, result |-> FALSE]
     ELSE [store |-> Splice(ps, index), result |-> TRUE]

(***************************************************************************)
(* MockUserService.  A password hash is kept as the password it was made   *)
(* from, tagged.                                                           *)
(***************************************************************************)
hashSync(password) == [hash |-> password]

SeedUsers == <<
  [_id |-> "user_admin_001", email |-> "admin@example.com",
   password |-> hashSync("Admin123!"), name |-> "System Admin", role |-> ADMIN,
   isActive |-> TRUE, createdAt |-> JanDate(1, 0, 0), updatedAt |-> JanDate(1, 0, 0)],
  [_id |-> "user_manager_001", email |-> "manager@example.com",
   password |-> hashSync("Password123"), name |-> "Warehouse Manager", role |-> MANAGER,
   isActive |-> TRUE, createdAt |-> JanDate(1, 0, 0), updatedAt |-> JanDate(1, 0, 0)],
  [_id |-> "user_viewer_001", email |-> "viewer@example.com",
   password |-> hashSync("Viewer123"), name |-> "Inventory Viewer", role |-> VIEWER,
   isActive |-> TRUE, createdAt |-> JanDate(1, 0, 0), updatedAt |-> JanDate(1, 0, 0)] >>

\* find(u => u.email === email), returned as a copy or null
UserFindByEmail(us, email) ==
  IF \E i \in 1..Len(us) : us[i].email = email
  THEN us[CHOOSE i \in 1..Len(us) :
            /\ us[i].email = email
            /\ \A j \in 1..(i - 1) : us[j].email # email]
  ELSE Null

\* create: the new array and the value returned
UserCreate(us, userData, t) ==
  LET newUser == Spread(Spread([_id |-> "user_" \o ToString(t)], userData),
                        [createdAt |-> t, updatedAt |-> t])
  IN [store |-> Append(us, newUser), result |-> newUser]

(***************************************************************************)
(* MockInventoryLogService                                                 *)
(***************************************************************************)
SeedLogs == <<
  [_id |-> "log_001", productId |-> "prod_001", warehouseId |-> "wh_main",
   userId |-> "user_manager_001", action |-> "update",
   previousStock |-> 50, newStock |-> 45, quantity |-> -5,
   reason |-> "Sold to customer", timestamp |-> JanDate(15, 10, 0)],
  [_id |-> "log_002", productId |-> "prod_002", warehouseId |-> "wh_main",
   userId |-> "user_manager_001", action |-> "update",
   previousStock |-> 20, newStock |-> 15, quantity |-> -5,
   reason |-> "Inventory adjustment", timestamp |-> JanDate(14, 14, 30)],
  [_id |-> "log_003", productId |-> "prod_003", warehouseId |-> "wh_main",
   userId |-> "user_admin_001", action |-> "add",
   previousStock |-> 0, newStock |-> 25, quantity |-> 25,
   reason |-> "Initial stock", timestamp |-> JanDate(10, 9, 0)],
  [_id |-> "log_004", productId |-> "prod_001", warehouseId |-> "wh_main",
   userId |-> "user_manager_001", action |-> "update",
   previousStock |-> 45, newStock |-> 5, quantity |-> -40,
   reason |-> "Bulk sale", timestamp |-> JanDate(20, 16, 45)] >>

\* create: the new array and the value returned
LogCreate(lg, logData, t) ==
  LET newLog == Spread(Spread([_id |-> "log_" \o ToString(t)], logData),
                       [timestamp |-> t])
  IN [store |-> Append(lg, newLog), result |-> newLog]

\* fault variant: a decrease is recorded with the declared action kind 'remove'
createStockUpdate_RemoveOnDecrease(lg, productId, warehouseId, userId, previousStock, newStock, reason, t) ==
  LET quantity == newStock - previousStock
      action == IF quantity > 0 THEN "add" ELSE IF quantity < 0 THEN "remove" ELSE "update"
  IN LogCreate(lg,
       [productId |-> productId, warehouseId |-> warehouseId, userId |-> userId,
        action |-> action, previousStock |-> previousStock, newStock |-> newStock,
        quantity |-> quantity,
        reason |-> IF reason # Undefined /\ reason[1] # "" THEN reason[1] ELSE "Stock update"],
       t)

\* fault variant: the reason passed in is dropped
createStockUpdate_DefaultReason(lg, productId, warehouseId, userId, previousStock, newStock, reason, t) ==
  LET quantity == newStock - previousStock
      action == IF quantity > 0 THEN "add" ELSE IF quantity < 0 THEN "update" ELSE "update"
  IN LogCreate(lg,
       [productId |-> productId, warehouseId |-> warehouseId, userId |-> userId,
        action |-> action, previousStock |-> previousStock, newStock |-> newStock,
        quantity |-> quantity, reason |-> "Stock update"],
       t)

\* fault variant: an update that changes nothing is not logged
createStockUpdate_SkipNoChange(lg, productId, warehouseId, userId, previousStock, newStock, reason, t) ==
  LET quantity == newStock - previousStock
      action == IF quantity > 0 THEN "add" ELSE IF quantity < 0 THEN "update" ELSE "update"
      c == LogCreate(lg,
             [productId |-> productId, warehouseId |-> warehouseId, userId |-> userId,
              action |-> action, previousStock |-> previousStock, newStock |-> newStock,
              quantity |-> quantity,
              reason |-> IF reason # Undefined /\ reason[1] # ""
                         THEN reason[1] ELSE "Stock update"],
             t)
  IN IF quantity = 0 THEN [store |-> lg, result |-> c.result] ELSE c

\* reason is the optional parameter: Undefined or Given(string)
createStockUpdate(lg, productId, warehouseId, userId, previousStock, newStock, reason, t) ==
  LET quantity == newStock - previousStock
      action == IF quantity > 0 THEN "add" ELSE IF quantity < 0 THEN "update" ELSE "update"
  IN LogCreate(lg,
       [productId |-> productId, warehouseId |-> warehouseId, userId |-> userId,
        action |-> action, previousStock |-> previousStock, newStock |-> newStock,
        quantity |-> quantity,
        reason |-> IF reason # Undefined /\ reason[1] # "" THEN reason[1] ELSE "Stock update"],
       t)

\* Array.prototype.sort((a, b) => b.timestamp - a.timestamp): stable, newest first
RECURSIVE SortNewestFirst(_)
SortNewestFirst(arr) ==
  IF arr = <<>>
  THEN <<>>
  ELSE LET n == Len(arr)
           sorted == SortNewestFirst(SubSeq(arr, 1, n - 1))
           k == Cardinality({i \in 1..Len(sorted) : sorted[i].timestamp >= arr[n].timestamp})
       IN SubSeq(sorted, 1, k) \o <<arr[n]>> \o SubSeq(sorted, k + 1, Len(sorted))

\* findAll: a sorted copy is returned; the stored array is not touched
\* fault variant: sort() on the array itself instead of on a copy
LogFindAll_SortInPlace(lg) ==
  [store |-> SortNewestFirst(lg), result |-> SortNewestFirst(lg)]

\* fault variant: the copy is returned in stored order
LogFindAll_Unsorted(lg) == [store |-> lg, result |-> lg]

LogFindAll(lg) == [store |-> lg, result |-> SortNewestFirst(lg)]

\* findByProduct: filter, copy, sort
LogFindByProduct(lg, productId) ==
  LET ForProduct(log) == log.productId = productId
  IN [store |-> lg, result |-> SortNewestFirst(SelectSeq(lg, ForProduct))]

(***************************************************************************)
(* MockWarehouseService: the warehouses are never written by a handler     *)
(***************************************************************************)
SeedWarehouses == <<
  [_id |-> "wh_main", name |-> "Main Warehouse", isActive |-> TRUE],
  [_id |-> "wh_storage", name |-> "Storage Facility", isActive |-> TRUE],
  [_id |-> "wh_backup", name |-> "Backup Warehouse", isActive |-> FALSE] >>

\* warehouses.find(w => w._id === product.warehouseId)?.name || 'Unknown'
WarehouseName(p) ==
  IF "warehouseId" \in DOMAIN p
       /\ \E i \in 1..Len(SeedWarehouses) : SeedWarehouses[i]._id = p.warehouseId
  THEN SeedWarehouses[CHOOSE i \in 1..Len(SeedWarehouses) :
                        SeedWarehouses[i]._id = p.warehouseId].name
  ELSE "Unknown"

(***************************************************************************)
(* Joi schemas.  A request body maps the keys it holds to JSON values.     *)
(* A schema maps each key it allows to its type and whether it is          *)
(* required.  Joi.number() converts a numeric string.  validate returns    *)
(* the error flag and the converted value.                                 *)
(***************************************************************************)
\* Number(s), for the strings the requests carry
NumericString(s) == s \in {"7"}
StringToNumber(s) == IF s = "7" THEN 7 ELSE 0

\* fault variant: Joi.number() without min(0)
JoiNumber_NoMin(v) ==
  CASE v.k = "num" -> [ok |-> TRUE, v |-> v.n]
    [] v.k = "str" -> IF NumericString(v.s)
                      THEN [ok |-> TRUE, v |-> StringToNumber(v.s)]
                      ELSE [ok |-> FALSE, v |-> 0]
    [] OTHER -> [ok |-> FALSE, v |-> 0]

\* Joi.number().min(0): whether v passes, and the number it yields
JoiNumberMin0(v) ==
  CASE v.k = "num" -> [ok |-> v.n >= 0, v |-> v.n]
    [] v.k = "str" -> IF NumericString(v.s)
                      THEN [ok |-> StringToNumber(v.s) >= 0, v |-> StringToNumber(v.s)]
                      ELSE [ok |-> FALSE, v |-> 0]
    [] OTHER -> [ok |-> FALSE, v |-> 0]

\* Joi.string() and Joi.string().min(1): a non-empty string
JoiString(v) ==
  IF v.k = "str" THEN [ok |-> v.s # "", v |-> v.s] ELSE [ok |-> FALSE, v |-> ""]

\* String.prototype.length and the e-mail format, for the strings the requests carry
StringLength(s) ==
  CASE s = "Secret123" -> 9
    [] s = "short" -> 5
    [] s = "New User" -> 8
    [] s = "new@example.com" -> 15
    [] s = "admin@example.com" -> 17
    [] s = "not-an-email" -> 12
    [] OTHER -> 0

IsEmail(s) == s \in {"new@example.com", "admin@example.com"}

\* Joi.string().email()
JoiStringEmail(v) ==
  IF v.k = "str" THEN [ok |-> IsEmail(v.s), v |-> v.s] ELSE [ok |-> FALSE, v |-> ""]

\* Joi.string().min(n)
JoiStringMin(n, v) ==
  IF v.k = "str" THEN [ok |-> StringLength(v.s) >= n, v |-> v.s] ELSE [ok |-> FALSE, v |-> ""]

\* Joi.string().valid(...Object.values(UserRole))
JoiStringValidRole(v) ==
  IF v.k = "str" THEN [ok |-> v.s \in UserRole, v |-> v.s] ELSE [ok |-> FALSE, v |-> ""]

JoiField(type, v) ==
  CASE type = "number" -> JoiNumberMin0(v)
    [] type = "email" -> JoiStringEmail(v)
    [] type = "min8" -> JoiStringMin(8, v)
    [] type = "min2" -> JoiStringMin(2, v)
    [] type = "role" -> JoiStringValidRole(v)
    [] OTHER -> JoiString(v)

\* Joi.object(schema).validate(body)
JoiValidate(schema, body) ==
  IF /\ \A f \in DOMAIN body : f \in DOMAIN schema /\ JoiField(schema[f].type, body[f]).ok
     /\ \A f \in DOMAIN schema : schema[f].required => f \in DOMAIN body
  THEN [error |-> FALSE,
        value |-> [f \in DOMAIN body |-> JoiField(schema[f].type, body[f]).v]]
  ELSE [error |-> TRUE, value |-> Null]

Required(type) == [type |-> type, required |-> TRUE]
Optional(type) == [type |-> type, required |-> FALSE]

\* ProductController.productSchema
productSchema ==
  [name |-> Required("string"), sku |-> Required("string"),
   price |-> Required("number"), category |-> Required("string"),
   stock |-> Required("number"), minStock |-> Optional("number"),
   description |-> Optional("string"), warehouseId |-> Optional("string")]

\* ProductController.updateProductSchema
updateProductSchema ==
  [name |-> Optional("string"), sku |-> Optional("string"),
   price |-> Optional("number"), category |-> Optional("string"),
   stock |-> Optional("number"), minStock |-> Optional("number"),
   description |-> Optional("string"), warehouseId |-> Optional("string")]

\* AuthController.registerSchema
registerSchema ==
  [email |-> Required("email"), password |-> Required("min8"),
   name |-> Required("min2"), role |-> Optional("role")]

\* InventoryController.updateStockSchema
updateStockSchema ==
  [stock |-> Required("number"), reason |-> Optional("string")]

(***************************************************************************)
(* Requests and responses                                                  *)
(***************************************************************************)
PATCH_INVENTORY == "PATCH /inventory/:id"
POST_PRODUCTS == "POST /products"
PUT_PRODUCTS == "PUT /products/:id"
DELETE_PRODUCTS == "DELETE /products/:id"
GET_LOGS == "GET /inventory/logs"
GET_PRODUCTS == "GET /products"
GET_PRODUCTS_LOW_STOCK == "GET /products/low-stock"
GET_PRODUCT == "GET /products/:id"
GET_INVENTORY == "GET /inventory"
GET_INVENTORY_SUMMARY == "GET /inventory/summary"
GET_REPORT_LOW_STOCK == "GET /reports/low-stock"
GET_REPORT_INVENTORY == "GET /reports/inventory"
GET_REPORT_MOVEMENTS == "GET /reports/movements"
POST_REGISTER == "POST /auth/register"

\* the Authorization header: none, another scheme, or 'Bearer <token>'
NoAuthorization == [k |-> "none"]
BasicAuthorization == [k |-> "basic"]
Bearer(token) == [k |-> "bearer", token |-> token]

\* a token that jwt.verify rejects, and one it accepts, with its payload
InvalidToken == [valid |-> FALSE]
TokenFor(userId, email, role) ==
  [valid |-> TRUE, payload |-> [userId |-> userId, email |-> email, role |-> role]]

AdminToken == TokenFor("user_admin_001", "admin@example.com", ADMIN)
ManagerToken == TokenFor("user_manager_001", "manager@example.com", MANAGER)
ViewerToken == TokenFor("user_viewer_001", "viewer@example.com", VIEWER)
\* a token still valid for a manager who is not in the user store
FormerManagerToken == TokenFor("user_manager_000", "former@example.com", MANAGER)

NoRes == [status |-> 0, message |-> "", data |-> Null]

IdleReq ==
  [pc |-> "idle", route |-> "", authorization |-> NoAuthorization, id |-> "",
   body |-> <<>>, query |-> <<>>, user |-> Null, value |-> Null, product |-> Null,
   previousStock |-> 0, updatedProduct |-> Null, skuConflict |-> Null,
   deleted |-> FALSE, list |-> <<>>, existingUser |-> Null,
   hashedPassword |-> Null, newUser |-> Null, ip |-> "", res |-> NoRes]

\* res.status(status).json({message, data}): the response ends the request
Respond(q, status, message, data) ==
  [q EXCEPT !.pc = "done",
            !.res = [status |-> status, message |-> message, data |-> data]]

(***************************************************************************)
(* AuthUtils.verifyAccessToken and AuthMiddleware                          *)
(***************************************************************************)
\* jwt.verify: the payload, or the error thrown
verifyAccessToken(token) ==
  IF token.valid
  THEN [thrown |-> FALSE, decoded |-> token.payload]
  ELSE [thrown |-> TRUE, decoded |-> Null]

\* fault variant: the user is looked up in the user store and must be there
authenticate_FromStore(q) ==
  IF q.authorization.k # "bearer"
  THEN Respond(q, 401, "Access token required", Null)
  ELSE LET v == verifyAccessToken(q.authorization.token)
       IN IF v.thrown \/ ~\E i \in 1..Len(users) : users[i]._id = v.decoded.userId
          THEN Respond(q, 401, "Invalid or expired token", Null)
          ELSE [q EXCEPT !.pc = "authorize",
                         !.user = [id |-> v.decoded.userId,
                                   email |-> v.decoded.email,
                                   role |-> v.decoded.role]]

authenticate(q) ==
  IF q.authorization.k # "bearer"
  THEN Respond(q, 401, "Access token required", Null)
  ELSE LET v == verifyAccessToken(q.authorization.token)
       IN IF v.thrown
          THEN Respond(q, 401, "Invalid or expired token", Null)
          ELSE [q EXCEPT !.pc = "authorize",
                         !.user = [id |-> v.decoded.userId,
                                   email |-> v.decoded.email,
                                   role |-> v.decoded.role]]

authorize(requiredRole, q) ==
  IF q.user = Null
  THEN Respond(q, 401, "Authentication required", Null)
  ELSE IF ~hasRole(q.user.role, requiredRole)
       THEN Respond(q, 403, "Insufficient permissions", Null)
       ELSE [q EXCEPT !.pc = "handler"]

\* fault variant: any authenticated user passes
authorizeAny_NoRoleCheck(requiredRoles, q) ==
  IF q.user = Null
  THEN Respond(q, 401, "Authentication required", Null)
  ELSE [q EXCEPT !.pc = "handler"]

authorizeAny(requiredRoles, q) ==
  IF q.user = Null
  THEN Respond(q, 401, "Authentication required", Null)
  ELSE IF ~hasAnyRole(q.user.role, requiredRoles)
       THEN Respond(q, 403, "Insufficient permissions", Null)
       ELSE [q EXCEPT !.pc = "handler"]

requireAdmin(q) == authorize(ADMIN, q)
requireManagerOrAdmin(q) == authorizeAny(<<MANAGER, ADMIN>>, q)
requireViewerOrHigher(q) == authorizeAny(<<VIEWER, MANAGER, ADMIN>>, q)

\* fault variant: the movements report registered with requireViewerOrHigher
RouteAuthorize_MovementsForViewer(q) ==
  CASE q.route \in {PATCH_INVENTORY, GET_REPORT_LOW_STOCK} -> requireManagerOrAdmin(q)
    [] q.route \in {POST_PRODUCTS, PUT_PRODUCTS, DELETE_PRODUCTS, POST_REGISTER} ->
         requireAdmin(q)
    [] OTHER -> requireViewerOrHigher(q)

\* the role middleware each route is registered with
RouteAuthorize(q) ==
  CASE q.route = PATCH_INVENTORY -> requireManagerOrAdmin(q)
    [] q.route = GET_LOGS -> requireViewerOrHigher(q)
    [] q.route \in {GET_PRODUCTS, GET_PRODUCTS_LOW_STOCK, GET_PRODUCT} ->
         requireViewerOrHigher(q)
    [] q.route \in {GET_INVENTORY, GET_INVENTORY_SUMMARY} -> requireViewerOrHigher(q)
    [] q.route \in {GET_REPORT_LOW_STOCK, GET_REPORT_MOVEMENTS} ->
         requireManagerOrAdmin(q)
    [] q.route = GET_REPORT_INVENTORY -> requireViewerOrHigher(q)
    [] OTHER -> requireAdmin(q)

(***************************************************************************)
(* The requests that arrive                                                *)
(***************************************************************************)
AuthorizationInputs ==
  {NoAuthorization, BasicAuthorization, Bearer(InvalidToken),
   Bearer(AdminToken), Bearer(ManagerToken), Bearer(ViewerToken)}

Routes == {PATCH_INVENTORY, POST_PRODUCTS, PUT_PRODUCTS, DELETE_PRODUCTS, GET_LOGS}

ProductIdInputs == {"prod_001", "nonexistent-id"}

StockBodyInputs ==
  {[stock |-> Num(7)],
   [stock |-> Num(3), reason |-> Str("sale")],
   [stock |-> Str("7")],
   [stock |-> Num(-5), reason |-> Str("sale")],
   [stock |-> Str("abc")],
   [reason |-> Str("sale")]}

NewProductBody ==
  [name |-> Str("Desk Lamp"), sku |-> Str("DL-2025"), price |-> Num(1999),
   category |-> Str("Furniture"), stock |-> Num(4)]

CreateBodyInputs ==
  {NewProductBody,
   [NewProductBody EXCEPT !.sku = Str("DX15-2025")],
   [NewProductBody EXCEPT !.stock = Num(-1)]}

UpdateBodyInputs ==
  {[stock |-> Num(7)],
   [sku |-> Str("WM-2025")],
   [sku |-> Str("DL-2025"), minStock |-> Num(2)],
   [warehouseId |-> Str("wh_storage")],
   [stock |-> Num(-1)]}

Request(route, authorization, id, body) ==
  [route |-> route, authorization |-> authorization, id |-> id, body |-> body]

\* every route under every credential, and each route's inputs under a
\* credential that the route admits
RequestInputs ==
  {Request(route, a, "prod_001", <<>>) :
     route \in {DELETE_PRODUCTS, GET_LOGS}, a \in AuthorizationInputs}
  \cup {Request(PATCH_INVENTORY, a, "prod_001", [stock |-> Num(7)]) :
          a \in AuthorizationInputs}
  \cup {Request(PUT_PRODUCTS, a, "prod_001", [stock |-> Num(7)]) :
          a \in AuthorizationInputs}
  \cup {Request(POST_PRODUCTS, a, "", NewProductBody) : a \in AuthorizationInputs}
  \cup {Request(PATCH_INVENTORY, Bearer(ManagerToken), id, body) :
          id \in ProductIdInputs, body \in StockBodyInputs}
  \cup {Request(POST_PRODUCTS, Bearer(AdminToken), "", body) :
          body \in CreateBodyInputs}
  \cup {Request(PUT_PRODUCTS, Bearer(AdminToken), id, body) :
          id \in ProductIdInputs, body \in UpdateBodyInputs}
  \cup {Request(DELETE_PRODUCTS, Bearer(AdminToken), id, <<>>) :
          id \in ProductIdInputs}
  \cup {Request(GET_LOGS, Bearer(ViewerToken), "", <<>>)
          @@ [query |-> [productId |-> id]] : id \in {"prod_001", "prod_002"}}

\* the stock updates (and a delete) that are let run concurrently
ConcurrentInputs ==
  {Request(PATCH_INVENTORY, Bearer(ManagerToken), "prod_001", [stock |-> Num(7)]),
   Request(PATCH_INVENTORY, Bearer(AdminToken), "prod_001",
           [stock |-> Num(3), reason |-> Str("sale")]),
   Request(PATCH_INVENTORY, Bearer(ManagerToken), "nonexistent-id", [stock |-> Num(-5)]),
   Request(PATCH_INVENTORY, Bearer(ManagerToken), "nonexistent-id", [stock |-> Num(7)]),
   Request(PATCH_INVENTORY, Bearer(ViewerToken), "prod_001", [stock |-> Num(7)]),
   Request(PATCH_INVENTORY, Bearer(FormerManagerToken), "prod_001", [stock |-> Num(7)]),
   Request(PATCH_INVENTORY, NoAuthorization, "prod_001", [stock |-> Num(7)]),
   Request(DELETE_PRODUCTS, Bearer(AdminToken), "prod_001", <<>>)}

(***************************************************************************)
(* The state machine                                                       *)
(***************************************************************************)
\* the seeded stores as objects: every new Date(...) of the seed data is an
\* object of its own
SeedHeap ==
  [dates |-> [a \in 1..(Len(SeedLogs) + 2 * Len(SeedProducts)) |->
                IF a <= Len(SeedLogs)
                THEN SeedLogs[a].timestamp
                ELSE LET i == (a - Len(SeedLogs) + 1) \div 2
                     IN IF (a - Len(SeedLogs)) % 2 = 1
                        THEN SeedProducts[i].createdAt
                        ELSE SeedProducts[i].updatedAt],
   logs |-> [i \in 1..Len(SeedLogs) |-> [SeedLogs[i] EXCEPT !.timestamp = i]],
   products |-> [i \in 1..Len(SeedProducts) |->
                   [SeedProducts[i] EXCEPT !.createdAt = Len(SeedLogs) + 2 * i - 1,
                                           !.updatedAt = Len(SeedLogs) + 2 * i]]]

NoHeld == [kind |-> "none", objs |-> <<>>, seen |-> <<>>, mutated |-> FALSE]

NoHist ==
  [entered |-> FALSE, wrote |-> FALSE, products |-> <<>>, logs |-> <<>>, users |-> <<>>]
\* the clients requests come from (req.ip)
Clients == {"10.0.0.1", "10.0.0.2"}

\* reportLimiter before any request, in a process started with this NODE_ENV
NoLimiter(nodeEnv) ==
  [nodeEnv |-> nodeEnv,
   hits |-> [c \in Clients |-> 0], resetTime |-> [c \in Clients |-> 0],
   reached |-> 0, limited |-> 0]

NoCheck == [fn |-> "none", userRole |-> "", requiredRoles |-> <<>>, result |-> FALSE]

Init ==
  /\ products = SeedProducts
  /\ logs = SeedLogs
  /\ now = ClockStart
  /\ req = [r \in Slots |-> IdleReq]
  /\ hist = [r \in Slots |-> NoHist]
  /\ check = NoCheck
  /\ users = SeedUsers
  /\ heap = SeedHeap
  /\ held = NoHeld
  /\ limiter = NoLimiter("production")

InFlight(route) == Cardinality({r \in Slots : req[r].pc # "idle" /\ req[r].route = route})

\* history: whether a step of request r changed a store
Track(r) ==
  hist' = [hist EXCEPT ![r].wrote =
                         @ \/ products' # products \/ logs' # logs \/ users' # users]

\* history: the stores as the handler of request r is entered
Enter(r) ==
  hist' = [hist EXCEPT ![r].entered = TRUE,
                       ![r].products = products, ![r].logs = logs, ![r].users = users,
                       ![r].wrote =
                         @ \/ products' # products \/ logs' # logs \/ users' # users]

\* the clock advances
Tick ==
  /\ now < ClockStart + MaxTicks
  /\ now' = now + 1
  /\ UNCHANGED <<products, logs, req, hist, check, users, heap, held, limiter>>

\* a request drawn from inputs arrives, takes the first free slot and enters
\* the middleware chain of its route
Receive(r, inputs) ==
  /\ req[r].pc = "idle"
  /\ \A s \in 1..(r - 1) : req[s].pc # "idle"
  /\ \E q \in inputs :
       /\ q.route = PATCH_INVENTORY => Len(logs) + InFlight(PATCH_INVENTORY) < MaxLogs
       /\ q.route = POST_PRODUCTS => Len(products) + InFlight(POST_PRODUCTS) < MaxProducts
       /\ req' = [req EXCEPT ![r] =
                    [IdleReq EXCEPT !.pc = "authenticate", !.route = q.route,
                                    !.authorization = q.authorization,
                                    !.id = q.id, !.body = q.body,
                                    !.query = IF "query" \in DOMAIN q
                                              THEN q.query ELSE <<>>]]
  /\ hist' = [hist EXCEPT ![r] = NoHist]
  /\ UNCHANGED <<products, logs, now, check, users, heap, held, limiter>>

Authenticate(r) ==
  /\ req[r].pc = "authenticate"
  /\ req' = [req EXCEPT ![r] = authenticate(req[r])]
  /\ UNCHANGED <<products, logs, now, check, users, heap, held, limiter>>
  /\ Track(r)

Authorize(r) ==
  /\ req[r].pc = "authorize"
  /\ req' = [req EXCEPT ![r] = RouteAuthorize(req[r])]
  /\ UNCHANGED <<products, logs, now, check, users, heap, held, limiter>>
  /\ Track(r)

\* the response has been sent: the slot is free again
Finish(r) ==
  /\ req[r].pc = "done"
  /\ req' = [req EXCEPT ![r] = IdleReq]
  /\ hist' = [hist EXCEPT ![r] = NoHist]
  /\ UNCHANGED <<products, logs, now, check, users, heap, held, limiter>>

(***************************************************************************)
(* Pagination as getAllProducts and getInventoryLogs compute it            *)
(***************************************************************************)
\* parseInt of a query string: an integer, or NaN
parseInt(str) ==
  CASE str = "1" -> [nan |-> FALSE, n |-> 1]
    [] str = "2" -> [nan |-> FALSE, n |-> 2]
    [] str = "3" -> [nan |-> FALSE, n |-> 3]
    [] str = "0" -> [nan |-> FALSE, n |-> 0]
    [] str = "-1" -> [nan |-> FALSE, n |-> -1]
    [] str = "-2" -> [nan |-> FALSE, n |-> -2]
    [] str = "2abc" -> [nan |-> FALSE, n |-> 2]
    [] str = "30" -> [nan |-> FALSE, n |-> 30]
    [] str = "60" -> [nan |-> FALSE, n |-> 60]
    [] str = "90" -> [nan |-> FALSE, n |-> 90]
    [] OTHER -> [nan |-> TRUE, n |-> 0]

\* parseInt(req.query.<name> as string) || default
QueryInt(query, name, default) ==
  IF name \notin DOMAIN query
  THEN default
  ELSE LET parsed == parseInt(query[name])
       IN IF parsed.nan \/ parsed.n = 0 THEN default ELSE parsed.n

\* Array.prototype.slice(start, end): a negative index counts from the end
RelativeIndex(len, k) ==
  IF k < 0 THEN (IF len + k < 0 THEN 0 ELSE len + k) ELSE (IF k > len THEN len ELSE k)

slice(arr, start, end) ==
  SubSeq(arr, RelativeIndex(Len(arr), start) + 1, RelativeIndex(Len(arr), end))

\* Math.ceil(total / limit), limit not 0
ceil(total, limit) ==
  IF limit > 0
  THEN (total + limit - 1) \div limit
  ELSE 0 - (total \div (0 - limit))

\* startIndex, endIndex, slice and the pagination object
paginate(list, page, limit) ==
  LET startIndex == (page - 1) * limit
      endIndex == startIndex + limit
  IN [data |-> slice(list, startIndex, endIndex),
      pagination |-> [page |-> page, limit |-> limit, total |-> Len(list),
                      totalPages |-> ceil(Len(list), limit)]]

\* res.json({message, data, pagination})
RespondPaginated(q, message, paged) ==
  [q EXCEPT !.pc = "done",
            !.res = [status |-> 200, message |-> message, data |-> paged.data,
                     pagination |-> paged.pagination]]

(***************************************************************************)
(* InventoryController.updateStock                                         *)
(***************************************************************************)
\* validation, then findById is called and awaited
updateStock_find(r) ==
  /\ req[r].pc = "handler" /\ req[r].route = PATCH_INVENTORY
  /\ LET q == req[r]
         v == JoiValidate(updateStockSchema, q.body)
     IN req' = [req EXCEPT ![r] =
                  IF v.error
                  THEN Respond(q, 400, "Validation error", Null)
                  ELSE [q EXCEPT !.pc = "updateStock_found", !.value = v.value,
                                 !.product = ProductFindById(products, q.id)]]
  /\ UNCHANGED <<products, logs, now, check, users, heap, held, limiter>>
  /\ Enter(r)

\* findById has resolved; mockProductService.updateStock is called and awaited
updateStock_write(r) ==
  /\ req[r].pc = "updateStock_found"
  /\ LET q == req[r]
         w == ProductUpdateStock(products, q.id, q.value.stock, now)
     IN IF q.product = Null
        THEN /\ req' = [req EXCEPT ![r] = Respond(q, 404, "Product not found", Null)]
             /\ UNCHANGED products
        ELSE /\ req' = [req EXCEPT ![r] =
                          [q EXCEPT !.pc = "updateStock_written",
                                    !.previousStock = q.product.stock,
                                    !.updatedProduct = w.result]]
             /\ products' = w.store
  /\ UNCHANGED <<logs, now, check, users, heap, held, limiter>>
  /\ Track(r)

\* updateStock has resolved; createStockUpdate is called and awaited
updateStock_log(r) ==
  /\ req[r].pc = "updateStock_written"
  /\ LET q == req[r]
         reason == IF "reason" \in DOMAIN q.value THEN Given(q.value.reason) ELSE Undefined
         warehouseId == IF "warehouseId" \in DOMAIN q.product /\ q.product.warehouseId # ""
                        THEN q.product.warehouseId ELSE ""
     IN IF q.updatedProduct = Null
        THEN /\ req' = [req EXCEPT ![r] = Respond(q, 500, "Failed to update stock", Null)]
             /\ UNCHANGED logs
        ELSE /\ req' = [req EXCEPT ![r].pc = "updateStock_logged"]
             /\ logs' = createStockUpdate(logs, q.id, warehouseId, q.user.id,
                                          q.previousStock, q.value.stock, reason, now).store
  /\ UNCHANGED <<products, now, check, users, heap, held, limiter>>
  /\ Track(r)

\* createStockUpdate has resolved; the response is sent
updateStock_respond(r) ==
  /\ req[r].pc = "updateStock_logged"
  /\ LET q == req[r]
     IN req' = [req EXCEPT ![r] =
                  Respond(q, 200, "Stock updated successfully",
                          [productId |-> q.id, previousStock |-> q.previousStock,
                           updatedStock |-> q.value.stock,
                           updatedAt |-> q.updatedProduct.updatedAt])]
  /\ UNCHANGED <<products, logs, now, check, users, heap, held, limiter>>
  /\ Track(r)

(***************************************************************************)
(* ProductController.createProduct                                         *)
(***************************************************************************)
\* validation, then findBySku is called and awaited
createProduct_check(r) ==
  /\ req[r].pc = "handler" /\ req[r].route = POST_PRODUCTS
  /\ LET q == req[r]
         v == JoiValidate(productSchema, q.body)
     IN req' = [req EXCEPT ![r] =
                  IF v.error
                  THEN Respond(q, 400, "Validation error", Null)
                  ELSE [q EXCEPT !.pc = "createProduct_checked", !.value = v.value,
                                 !.product = ProductFindBySku(products, v.value.sku)]]
  /\ UNCHANGED <<products, logs, now, check, users, heap, held, limiter>>
  /\ Enter(r)

\* findBySku has resolved; create is called and awaited
createProduct_create(r) ==
  /\ req[r].pc = "createProduct_checked"
  /\ LET q == req[r]
         c == ProductCreate(products, q.value, now)
     IN IF q.product # Null
        THEN /\ req' = [req EXCEPT ![r] =
                          Respond(q, 409, "Product with this SKU already exists", Null)]
             /\ UNCHANGED products
        ELSE /\ req' = [req EXCEPT ![r] =
                          [q EXCEPT !.pc = "createProduct_created", !.product = c.result]]
             /\ products' = c.store
  /\ UNCHANGED <<logs, now, check, users, heap, held, limiter>>
  /\ Track(r)

\* create has resolved; the response is sent
createProduct_respond(r) ==
  /\ req[r].pc = "createProduct_created"
  /\ req' = [req EXCEPT ![r] =
               Respond(req[r], 201, "Product created successfully", req[r].product)]
  /\ UNCHANGED <<products, logs, now, check, users, heap, held, limiter>>
  /\ Track(r)

(***************************************************************************)
(* ProductController.updateProduct                                         *)
(***************************************************************************)
\* validation, then findById is called and awaited
updateProduct_find(r) ==
  /\ req[r].pc = "handler" /\ req[r].route = PUT_PRODUCTS
  /\ LET q == req[r]
         v == JoiValidate(updateProductSchema, q.body)
     IN req' = [req EXCEPT ![r] =
                  IF v.error
                  THEN Respond(q, 400, "Validation error", Null)
                  ELSE [q EXCEPT !.pc = "updateProduct_found", !.value = v.value,
                                 !.product = ProductFindById(products, q.id)]]
  /\ UNCHANGED <<products, logs, now, check, users, heap, held, limiter>>
  /\ Enter(r)

\* findById has resolved; findBySku is called when the SKU changes, else update
updateProduct_check(r) ==
  /\ req[r].pc = "updateProduct_found"
  /\ LET q == req[r]
         u == ProductUpdate(products, q.id, q.value, now)
     IN IF q.product = Null
        THEN /\ req' = [req EXCEPT ![r] = Respond(q, 404, "Product not found", Null)]
             /\ UNCHANGED products
        ELSE IF "sku" \in DOMAIN q.value /\ q.value.sku # q.product.sku
             THEN /\ req' = [req EXCEPT ![r] =
                               [q EXCEPT !.pc = "updateProduct_skuChecked",
                                         !.skuConflict =
                                            ProductFindBySku(products, q.value.sku)]]
                  /\ UNCHANGED products
             ELSE /\ req' = [req EXCEPT ![r] =
                               [q EXCEPT !.pc = "updateProduct_updated",
                                         !.updatedProduct = u.result]]
                  /\ products' = u.store
  /\ UNCHANGED <<logs, now, check, users, heap, held, limiter>>
  /\ Track(r)

\* findBySku has resolved; update is called and awaited
updateProduct_update(r) ==
  /\ req[r].pc = "updateProduct_skuChecked"
  /\ LET q == req[r]
         u == ProductUpdate(products, q.id, q.value, now)
     IN IF q.skuConflict # Null
        THEN /\ req' = [req EXCEPT ![r] =
                          Respond(q, 409, "Product with this SKU already exists", Null)]
             /\ UNCHANGED products
        ELSE /\ req' = [req EXCEPT ![r] =
                          [q EXCEPT !.pc = "updateProduct_updated",
                                    !.updatedProduct = u.result]]
             /\ products' = u.store
  /\ UNCHANGED <<logs, now, check, users, heap, held, limiter>>
  /\ Track(r)

\* update has resolved; the response is sent
updateProduct_respond(r) ==
  /\ req[r].pc = "updateProduct_updated"
  /\ LET q == req[r]
     IN req' = [req EXCEPT ![r] =
                  IF q.updatedProduct = Null
                  THEN Respond(q, 500, "Failed to update product", Null)
                  ELSE Respond(q, 200, "Product updated successfully", q.updatedProduct)]
  /\ UNCHANGED <<products, logs, now, check, users, heap, held, limiter>>
  /\ Track(r)

(***************************************************************************)
(* ProductController.deleteProduct                                         *)
(***************************************************************************)
\* findById is called and awaited
deleteProduct_find(r) ==
  /\ req[r].pc = "handler" /\ req[r].route = DELETE_PRODUCTS
  /\ req' = [req EXCEPT ![r].pc = "deleteProduct_found",
                        ![r].product = ProductFindById(products, req[r].id)]
  /\ UNCHANGED <<products, logs, now, check, users, heap, held, limiter>>
  /\ Enter(r)

\* findById has resolved; delete is called and awaited
deleteProduct_delete(r) ==
  /\ req[r].pc = "deleteProduct_found"
  /\ LET q == req[r]
         d == ProductDelete(products, q.id)
     IN IF q.product = Null
        THEN /\ req' = [req EXCEPT ![r] = Respond(q, 404, "Product not found", Null)]
             /\ UNCHANGED products
        ELSE /\ req' = [req EXCEPT ![r].pc = "deleteProduct_deleted",
                                   ![r].deleted = d.result]
             /\ products' = d.store
  /\ UNCHANGED <<logs, now, check, users, heap, held, limiter>>
  /\ Track(r)

\* delete has resolved; the response is sent
deleteProduct_respond(r) ==
  /\ req[r].pc = "deleteProduct_deleted"
  /\ LET q == req[r]
     IN req' = [req EXCEPT ![r] =
                  IF ~q.deleted
                  THEN Respond(q, 500, "Failed to delete product", Null)
                  ELSE Respond(q, 200, "Product deleted successfully", Null)]
  /\ UNCHANGED <<products, logs, now, check, users, heap, held, limiter>>
  /\ Track(r)

(***************************************************************************)
(* InventoryController.getInventoryLogs (page 1, limit 20)                 *)
(***************************************************************************)
\* findByProduct or findAll is called and awaited
getInventoryLogs_find(r) ==
  /\ req[r].pc = "handler" /\ req[r].route = GET_LOGS
  /\ LET q == req[r]
         productId == IF "productId" \in DOMAIN q.query THEN q.query.productId ELSE ""
         found == IF productId # ""
                  THEN LogFindByProduct(logs, productId)
                  ELSE LogFindAll(logs)
     IN /\ req' = [req EXCEPT ![r].pc = "getInventoryLogs_found",
                              ![r].list = found.result]
        /\ logs' = found.store
  /\ UNCHANGED <<products, now, check, users, heap, held, limiter>>
  /\ Enter(r)

\* findAll has resolved; the page asked for is sent
getInventoryLogs_respond(r) ==
  /\ req[r].pc = "getInventoryLogs_found"
  /\ LET q == req[r]
         page == QueryInt(q.query, "page", 1)
         limit == QueryInt(q.query, "limit", 20)
     IN req' = [req EXCEPT ![r] =
                  RespondPaginated(q, "Inventory logs retrieved successfully",
                                   paginate(q.list, page, limit))]
  /\ UNCHANGED <<products, logs, now, check, users, heap, held, limiter>>
  /\ Track(r)

(***************************************************************************)
(* AuthController.register                                                 *)
(***************************************************************************)
\* validation, then findByEmail is called and awaited
register_check(r) ==
  /\ req[r].pc = "handler" /\ req[r].route = POST_REGISTER
  /\ LET q == req[r]
         v == JoiValidate(registerSchema, q.body)
     IN req' = [req EXCEPT ![r] =
                  IF v.error
                  THEN Respond(q, 400, "Validation error", Null)
                  ELSE [q EXCEPT !.pc = "register_checked", !.value = v.value,
                                 !.existingUser = UserFindByEmail(users, v.value.email)]]
  /\ UNCHANGED <<products, logs, now, check, users, heap, held, limiter>>
  /\ Enter(r)

\* findByEmail has resolved; hashPassword is called and awaited
register_hash(r) ==
  /\ req[r].pc = "register_checked"
  /\ LET q == req[r]
     IN req' = [req EXCEPT ![r] =
                  IF q.existingUser # Null
                  THEN Respond(q, 409, "User already exists with this email", Null)
                  ELSE [q EXCEPT !.pc = "register_hashed",
                                 !.hashedPassword = hashSync(q.value.password)]]
  /\ UNCHANGED <<products, logs, now, check, users, heap, held, limiter>>
  /\ Track(r)

\* hashPassword has resolved; create is called and awaited
register_create(r) ==
  /\ req[r].pc = "register_hashed"
  /\ LET q == req[r]
         c == UserCreate(users,
                [email |-> q.value.email, password |-> q.hashedPassword,
                 name |-> q.value.name,
                 role |-> IF "role" \in DOMAIN q.value THEN q.value.role ELSE VIEWER,
                 isActive |-> TRUE],
                now)
     IN /\ req' = [req EXCEPT ![r].pc = "register_created", ![r].newUser = c.result]
        /\ users' = c.store
  /\ UNCHANGED <<products, logs, now, check, heap, held, limiter>>
  /\ Track(r)

\* create has resolved; the response is sent
register_respond(r) ==
  /\ req[r].pc = "register_created"
  /\ LET q == req[r]
     IN req' = [req EXCEPT ![r] =
                  Respond(q, 201, "User registered successfully",
                          [id |-> q.newUser._id, email |-> q.newUser.email,
                           name |-> q.newUser.name, role |-> q.newUser.role,
                           createdAt |-> q.newUser.createdAt])]
  /\ UNCHANGED <<products, logs, now, check, users, heap, held, limiter>>
  /\ Track(r)

(***************************************************************************)
(* The handlers that only read (no query: first page, JSON format).  Each  *)
(* awaits its reads and then responds; it is one action, taken while no    *)
(* other request is in flight.                                             *)
(***************************************************************************)
\* Array.prototype.slice(0, n)
SliceFrom0(arr, n) == SubSeq(arr, 1, IF Len(arr) < n THEN Len(arr) ELSE n)

\* the row the inventory status and the inventory report give a product
InventoryRow(p) ==
  [productId |-> p._id, productName |-> p.name, sku |-> p.sku, category |-> p.category,
   currentStock |-> p.stock, minStock |-> MinStockOrZero(p),
   warehouse |-> WarehouseName(p), lastUpdated |-> p.updatedAt]

\* the row the low-stock report gives a product
LowStockRow(p) ==
  [product |-> p.name, sku |-> p.sku, stock |-> p.stock,
   warehouse |-> WarehouseName(p), minStock |-> MinStockOrZero(p)]

\* ProductController.getAllProducts
getAllProducts(r) ==
  /\ req[r].pc = "handler" /\ req[r].route = GET_PRODUCTS
  /\ LET q == req[r]
         page == QueryInt(q.query, "page", 1)
         limit == QueryInt(q.query, "limit", 10)
         found == IF "category" \in DOMAIN q.query /\ q.query.category # ""
                  THEN ProductFindByCategory(products, q.query.category)
                  ELSE ProductFindAll(products)
     IN req' = [req EXCEPT ![r] =
                  RespondPaginated(q, "Products retrieved successfully",
                                   paginate(found, page, limit))]
  /\ UNCHANGED <<products, logs, now, check, users, heap, held, limiter>>
  /\ Enter(r)

\* ProductController.getProductById
getProductById(r) ==
  /\ req[r].pc = "handler" /\ req[r].route = GET_PRODUCT
  /\ LET q == req[r]
         product == ProductFindById(products, q.id)
     IN req' = [req EXCEPT ![r] =
                  IF product = Null
                  THEN Respond(q, 404, "Product not found", Null)
                  ELSE Respond(q, 200, "Product retrieved successfully", product)]
  /\ UNCHANGED <<products, logs, now, check, users, heap, held, limiter>>
  /\ Enter(r)

\* ProductController.getLowStockProducts
getLowStockProducts(r) ==
  /\ req[r].pc = "handler" /\ req[r].route = GET_PRODUCTS_LOW_STOCK
  /\ req' = [req EXCEPT ![r] =
               Respond(req[r], 200, "Low stock products retrieved successfully",
                       ProductFindLowStock(products))]
  /\ UNCHANGED <<products, logs, now, check, users, heap, held, limiter>>
  /\ Enter(r)

\* InventoryController.getInventoryStatus
getInventoryStatus(r) ==
  /\ req[r].pc = "handler" /\ req[r].route = GET_INVENTORY
  /\ LET found == ProductFindAll(products)
     IN req' = [req EXCEPT ![r] =
                  Respond(req[r], 200, "Inventory status retrieved successfully",
                          [i \in 1..Len(found) |-> InventoryRow(found[i])])]
  /\ UNCHANGED <<products, logs, now, check, users, heap, held, limiter>>
  /\ Enter(r)

\* InventoryController.getInventorySummary (the counts and the recent movements)
getInventorySummary(r) ==
  /\ req[r].pc = "handler" /\ req[r].route = GET_INVENTORY_SUMMARY
  /\ LET found == ProductFindAll(products)
         OutOfStock(p) == p.stock = 0
     IN req' = [req EXCEPT ![r] =
                  Respond(req[r], 200, "Inventory summary retrieved successfully",
                          [totalProducts |-> Len(found),
                           lowStockProducts |-> Len(ProductFindLowStock(found)),
                           outOfStockProducts |-> Len(SelectSeq(found, OutOfStock)),
                           recentMovements |-> SliceFrom0(LogFindAll(logs).result, 5)])]
  /\ logs' = LogFindAll(logs).store
  /\ UNCHANGED <<products, now, check, users, heap, held, limiter>>
  /\ Enter(r)

\* ReportController.getLowStockReport
getLowStockReport(r) ==
  /\ req[r].pc = "handler" /\ req[r].route = GET_REPORT_LOW_STOCK
  /\ LET found == ProductFindLowStock(products)
     IN req' = [req EXCEPT ![r] =
                  Respond(req[r], 200, "Low stock report generated successfully",
                          [i \in 1..Len(found) |-> LowStockRow(found[i])])]
  /\ UNCHANGED <<products, logs, now, check, users, heap, held, limiter>>
  /\ Enter(r)

\* ReportController.getInventoryReport
getInventoryReport(r) ==
  /\ req[r].pc = "handler" /\ req[r].route = GET_REPORT_INVENTORY
  /\ LET found == ProductFindAll(products)
     IN req' = [req EXCEPT ![r] =
                  Respond(req[r], 200, "Inventory report generated successfully",
                          [i \in 1..Len(found) |-> InventoryRow(found[i])])]
  /\ UNCHANGED <<products, logs, now, check, users, heap, held, limiter>>
  /\ Enter(r)

\* fault variant: the report always covers 30 days
cutoffDate_Always30(query, t) == t - 30 * 24 * 60

\* days = parseInt(req.query.days) || 30; cutoffDate is days days before t
cutoffDate(query, t) == t - QueryInt(query, "days", 30) * 24 * 60

\* logs.filter(log => new Date(log.timestamp) >= cutoffDate)
recentLogs(found, cutoff) ==
  LET Recent(log) == log.timestamp >= cutoff
  IN SelectSeq(found, Recent)

\* a row of the report
reportRow(log) ==
  [date |-> log.timestamp,
   action |-> log.action,
   quantity |-> log.quantity,
   previousStock |-> log.previousStock,
   newStock |-> log.newStock,
   reason |-> log.reason]

\* ReportController.getMovementReport: the entries of the last days days
getMovementReport(r) ==
  /\ req[r].pc = "handler" /\ req[r].route = GET_REPORT_MOVEMENTS
  /\ LET recent == recentLogs(LogFindAll(logs).result, cutoffDate(req[r].query, now))
     IN req' = [req EXCEPT ![r] =
                  Respond(req[r], 200, "Movement report generated successfully",
                          [i \in 1..Len(recent) |-> reportRow(recent[i])])]
  /\ logs' = LogFindAll(logs).store
  /\ UNCHANGED <<products, now, check, users, heap, held, limiter>>
  /\ Enter(r)

(***************************************************************************)
(* Specifications                                                          *)
(***************************************************************************)
Step(r) ==
  \/ Authenticate(r)
  \/ Authorize(r)
  \/ updateStock_find(r)
  \/ updateStock_write(r)
  \/ updateStock_log(r)
  \/ updateStock_respond(r)
  \/ createProduct_check(r)
  \/ createProduct_create(r)
  \/ createProduct_respond(r)
  \/ updateProduct_find(r)
  \/ updateProduct_check(r)
  \/ updateProduct_update(r)
  \/ updateProduct_respond(r)
  \/ deleteProduct_find(r)
  \/ deleteProduct_delete(r)
  \/ deleteProduct_respond(r)
  \/ getInventoryLogs_find(r)
  \/ getInventoryLogs_respond(r)
  \/ Finish(r)

\* stock updates and deletes in flight interleave at their awaits
StockStep(r) ==
  \/ Authenticate(r)
  \/ Authorize(r)
  \/ updateStock_find(r)
  \/ updateStock_write(r)
  \/ updateStock_log(r)
  \/ updateStock_respond(r)
  \/ deleteProduct_find(r)
  \/ deleteProduct_delete(r)
  \/ deleteProduct_respond(r)
  \/ Finish(r)

Next ==
  \/ Tick
  \/ \E r \in Slots : Receive(r, ConcurrentInputs)
  \/ \E r \in Slots : StockStep(r)

Spec == Init /\ [][Next]_vars

(***************************************************************************)
(* The access policy evaluated on its own, for every role and every list   *)
(* of required roles up to MaxRoles long                                   *)
(***************************************************************************)
RoleLists == UNION {[1..n -> UserRole] : n \in 0..MaxRoles}

EvalHasRole ==
  /\ \E userRole \in UserRole, requiredRole \in UserRole :
       check' = [fn |-> "hasRole", userRole |-> userRole,
                 requiredRoles |-> <<requiredRole>>,
                 result |-> hasRole(userRole, requiredRole)]
  /\ UNCHANGED <<products, logs, now, req, hist, users, heap, held, limiter>>

EvalHasAnyRole ==
  /\ \E userRole \in UserRole, requiredRoles \in RoleLists :
       check' = [fn |-> "hasAnyRole", userRole |-> userRole,
                 requiredRoles |-> requiredRoles,
                 result |-> hasAnyRole(userRole, requiredRoles)]
  /\ UNCHANGED <<products, logs, now, req, hist, users, heap, held, limiter>>

\* a named role middleware applied to an authenticated request: does it call next()
Admits(middleware, userRole) ==
  LET q == [IdleReq EXCEPT !.pc = "authorize",
                           !.user = [id |-> "", email |-> "", role |-> userRole]]
  IN (CASE middleware = "requireAdmin" -> requireAdmin(q)
        [] middleware = "requireManagerOrAdmin" -> requireManagerOrAdmin(q)
        [] OTHER -> requireViewerOrHigher(q)).pc = "handler"

EvalRequire ==
  /\ \E userRole \in UserRole,
        middleware \in {"requireAdmin", "requireManagerOrAdmin", "requireViewerOrHigher"} :
       check' = [fn |-> middleware, userRole |-> userRole, requiredRoles |-> <<>>,
                 result |-> Admits(middleware, userRole)]
  /\ UNCHANGED <<products, logs, now, req, hist, users, heap, held, limiter>>

NextPolicy == EvalHasRole \/ EvalHasAnyRole \/ EvalRequire

SpecPolicy == Init /\ [][NextPolicy]_vars

\* one request at a time: a request arrives only when none is in flight
ReceiveSeq(r) ==
  /\ \A s \in Slots : req[s].pc = "idle"
  /\ Receive(r, RequestInputs)

NextSeq ==
  \/ Tick
  \/ \E r \in Slots : ReceiveSeq(r)
  \/ \E r \in Slots : Step(r)

SpecSeq == Init /\ [][NextSeq]_vars

(***************************************************************************)
(* Every protected route under every credential, one request at a time     *)
(***************************************************************************)
NewUserBody ==
  [email |-> Str("new@example.com"), password |-> Str("Secret123"),
   name |-> Str("New User")]

RegisterBodyInputs ==
  {NewUserBody,
   NewUserBody @@ [role |-> Str(MANAGER)],
   [NewUserBody EXCEPT !.email = Str("admin@example.com")],
   [NewUserBody EXCEPT !.email = Str("not-an-email")],
   [NewUserBody EXCEPT !.password = Str("short")]}

ReadRoutes ==
  {GET_PRODUCTS, GET_PRODUCTS_LOW_STOCK, GET_PRODUCT, GET_INVENTORY,
   GET_INVENTORY_SUMMARY, GET_LOGS, GET_REPORT_LOW_STOCK, GET_REPORT_INVENTORY,
   GET_REPORT_MOVEMENTS}

AccessInputs ==
  {Request(route, a, "prod_001", <<>>) :
     route \in ReadRoutes \cup {DELETE_PRODUCTS}, a \in AuthorizationInputs}
  \cup {Request(route, a, "prod_001", [stock |-> Num(7)]) :
          route \in {PATCH_INVENTORY, PUT_PRODUCTS}, a \in AuthorizationInputs}
  \cup {Request(POST_PRODUCTS, a, "", NewProductBody) : a \in AuthorizationInputs}
  \cup {Request(POST_REGISTER, a, "", NewUserBody) : a \in AuthorizationInputs}
  \cup {Request(POST_REGISTER, Bearer(AdminToken), "", body) : body \in RegisterBodyInputs}
  \cup {Request(PUT_PRODUCTS, Bearer(AdminToken), "prod_001", [sku |-> Str("DL-2025")])}

ReceiveAccess(r) ==
  /\ \A s \in Slots : req[s].pc = "idle"
  /\ Receive(r, AccessInputs)

AccessStep(r) ==
  \/ Step(r)
  \/ register_check(r)
  \/ register_hash(r)
  \/ register_create(r)
  \/ register_respond(r)
  \/ getAllProducts(r)
  \/ getProductById(r)
  \/ getLowStockProducts(r)
  \/ getInventoryStatus(r)
  \/ getInventorySummary(r)
  \/ getLowStockReport(r)
  \/ getInventoryReport(r)
  \/ getMovementReport(r)

NextAccess ==
  \/ \E r \in Slots : ReceiveAccess(r)
  \/ \E r \in Slots : AccessStep(r)

SpecAccess == Init /\ [][NextAccess]_vars

(***************************************************************************)
(* Product creates, updates and deletes in flight together: they           *)
(* interleave at their awaits                                              *)
(***************************************************************************)
SkuInputs ==
  {Request(POST_PRODUCTS, Bearer(AdminToken), "", NewProductBody),
   Request(POST_PRODUCTS, Bearer(AdminToken), "",
           [NewProductBody EXCEPT !.sku = Str("DX15-2025")]),
   Request(PUT_PRODUCTS, Bearer(AdminToken), "prod_001", [sku |-> Str("DL-2025")]),
   Request(PUT_PRODUCTS, Bearer(AdminToken), "prod_001", [stock |-> Num(7)]),
   Request(DELETE_PRODUCTS, Bearer(AdminToken), "prod_001", <<>>)}

ProductStep(r) ==
  \/ Authenticate(r)
  \/ Authorize(r)
  \/ createProduct_check(r)
  \/ createProduct_create(r)
  \/ createProduct_respond(r)
  \/ updateProduct_find(r)
  \/ updateProduct_check(r)
  \/ updateProduct_update(r)
  \/ updateProduct_respond(r)
  \/ deleteProduct_find(r)
  \/ deleteProduct_delete(r)
  \/ deleteProduct_respond(r)
  \/ Finish(r)

NextSku ==
  \/ Tick
  \/ \E r \in Slots : Receive(r, SkuInputs)
  \/ \E r \in Slots : ProductStep(r)

SpecSku == Init /\ [][NextSku]_vars

(***************************************************************************)
(* The stores as objects, called directly by a caller that keeps what it   *)
(* was returned.  A read returns {...x}: a new object whose fields are the *)
(* fields of the stored one, so a date field of the copy is the very Date  *)
(* object of the stored entry.  products and logs follow the store         *)
(* operations by value.                                                    *)
(***************************************************************************)
\* new Date(t): the heap with the object added; its address is the new length
NewDate(h, t) == [h EXCEPT !.dates = Append(@, t)]

\* the values of objects: every date field replaced by the time of its Date
LogValue(h, o) == [o EXCEPT !.timestamp = h.dates[@]]
ProductValue(h, o) == [o EXCEPT !.createdAt = h.dates[@], !.updatedAt = h.dates[@]]
LogValues(h, objs) == [i \in 1..Len(objs) |-> LogValue(h, objs[i])]
ProductValues(h, objs) == [i \in 1..Len(objs) |-> ProductValue(h, objs[i])]

\* sort((a, b) => new Date(b.timestamp).getTime() - new Date(a.timestamp).getTime())
RECURSIVE HeapSortNewestFirst(_, _)
HeapSortNewestFirst(h, arr) ==
  IF arr = <<>>
  THEN <<>>
  ELSE LET n == Len(arr)
           sorted == HeapSortNewestFirst(h, SubSeq(arr, 1, n - 1))
           k == Cardinality({i \in 1..Len(sorted) :
                               h.dates[sorted[i].timestamp] >= h.dates[arr[n].timestamp]})
       IN SubSeq(sorted, 1, k) \o <<arr[n]>> \o SubSeq(sorted, k + 1, Len(sorted))

\* MockInventoryLogService.findAll and findByProduct: the objects returned
HeapLogFindAll(h) == HeapSortNewestFirst(h, h.logs)

HeapLogFindByProduct(h, productId) ==
  LET ForProduct(log) == log.productId = productId
  IN HeapSortNewestFirst(h, SelectSeq(h.logs, ForProduct))

\* MockProductService.findAll and findById: the objects returned
HeapProductFindAll(h) == h.products

HeapProductFindById(h, id) ==
  LET index == FindIndexById(h.products, id)
  IN IF index = 0 THEN <<>> ELSE <<h.products[index]>>

\* MockInventoryLogService.create
HeapLogCreate(h, logData, t) ==
  LET h1 == NewDate(h, t)
      newLog == Spread(Spread([_id |-> "log_" \o ToString(t)], logData),
                       [timestamp |-> Len(h1.dates)])
  IN [h1 EXCEPT !.logs = Append(@, newLog)]

\* MockProductService.updateStock: the stored object is written in place and
\* gets a new Date
HeapProductUpdateStock(h, id, newStock, t) ==
  LET index == FindIndexById(h.products, id)
      h1 == NewDate(h, t)
  IN IF index = 0
     THEN h
     ELSE [h1 EXCEPT !.products[index].stock = newStock,
                     !.products[index].updatedAt = Len(h1.dates)]

\* MockProductService.delete
HeapProductDelete(h, id) ==
  LET index == FindIndexById(h.products, id)
  IN IF index = 0 THEN h ELSE [h EXCEPT !.products = Splice(@, index)]

Hold(kind, objs, seen) ==
  [kind |-> kind, objs |-> objs, seen |-> seen, mutated |-> FALSE]

NewLogData ==
  [productId |-> "prod_001", warehouseId |-> "wh_main", userId |-> "user_admin_001",
   action |-> "add", previousStock |-> 5, newStock |-> 7, quantity |-> 2,
   reason |-> "Stock update"]

\* the caller reads
CallerLogFindAll ==
  /\ LET objs == HeapLogFindAll(heap)
     IN held' = Hold("log", objs, LogValues(heap, objs))
  /\ UNCHANGED <<products, logs, now, req, hist, check, users, heap, limiter>>

CallerLogFindByProduct ==
  /\ \E productId \in {"prod_001", "prod_002"} :
       LET objs == HeapLogFindByProduct(heap, productId)
       IN held' = Hold("log", objs, LogValues(heap, objs))
  /\ UNCHANGED <<products, logs, now, req, hist, check, users, heap, limiter>>

CallerProductFindAll ==
  /\ LET objs == HeapProductFindAll(heap)
     IN held' = Hold("product", objs, ProductValues(heap, objs))
  /\ UNCHANGED <<products, logs, now, req, hist, check, users, heap, limiter>>

CallerProductFindById ==
  /\ \E id \in ProductIdInputs :
       LET objs == HeapProductFindById(heap, id)
       IN held' = Hold("product", objs, ProductValues(heap, objs))
  /\ UNCHANGED <<products, logs, now, req, hist, check, users, heap, limiter>>

\* the date field of a kind of object that the caller touches
DateField(kind) == IF kind = "log" THEN "timestamp" ELSE "updatedAt"

\* the caller assigns a field of an object it holds: copy.reason = 'edited',
\* copy.name = 'edited'
CallerAssignField ==
  /\ \E i \in {1, Len(held.objs)} :
       /\ i \in 1..Len(held.objs)
       /\ held' = [held EXCEPT !.mutated = TRUE,
                               !.objs[i] = IF held.kind = "log"
                                           THEN [@ EXCEPT !.reason = "edited"]
                                           ELSE [@ EXCEPT !.name = "edited"]]
  /\ UNCHANGED <<products, logs, now, req, hist, check, users, heap, limiter>>

\* the caller assigns a date field: copy.timestamp = new Date(0)
CallerAssignDate ==
  /\ Len(heap.dates) < MaxDates
  /\ \E i \in {1, Len(held.objs)} :
       /\ i \in 1..Len(held.objs)
       /\ heap' = NewDate(heap, 0)
       /\ held' = [held EXCEPT !.mutated = TRUE,
                               !.objs[i][DateField(held.kind)] = Len(heap.dates) + 1]
  /\ UNCHANGED <<products, logs, now, req, hist, check, users, limiter>>

\* the caller changes the Date object of a date field: copy.timestamp.setTime(0)
CallerSetTime ==
  /\ \E i \in {1, Len(held.objs)} :
       /\ i \in 1..Len(held.objs)
       /\ heap' = [heap EXCEPT !.dates[held.objs[i][DateField(held.kind)]] = 0]
       /\ held' = [held EXCEPT !.mutated = TRUE]
  /\ UNCHANGED <<products, logs, now, req, hist, check, users, limiter>>

\* the stores are written after the read
StoreLogCreate ==
  /\ Len(logs) < MaxLogs /\ Len(heap.dates) < MaxDates
  /\ heap' = HeapLogCreate(heap, NewLogData, now)
  /\ logs' = LogCreate(logs, NewLogData, now).store
  /\ UNCHANGED <<products, now, req, hist, check, users, held, limiter>>

StoreProductUpdateStock ==
  /\ Len(heap.dates) < MaxDates
  /\ \E id \in ProductIdInputs, newStock \in {3, 7} :
       /\ heap' = HeapProductUpdateStock(heap, id, newStock, now)
       /\ products' = ProductUpdateStock(products, id, newStock, now).store
  /\ UNCHANGED <<logs, now, req, hist, check, users, held, limiter>>

StoreProductDelete ==
  /\ \E id \in ProductIdInputs :
       /\ heap' = HeapProductDelete(heap, id)
       /\ products' = ProductDelete(products, id).store
  /\ UNCHANGED <<logs, now, req, hist, check, users, held, limiter>>

NextCopy ==
  \/ Tick
  \/ CallerLogFindAll
  \/ CallerLogFindByProduct
  \/ CallerProductFindAll
  \/ CallerProductFindById
  \/ CallerAssignField
  \/ CallerAssignDate
  \/ CallerSetTime
  \/ StoreLogCreate
  \/ StoreProductUpdateStock
  \/ StoreProductDelete

SpecCopy == Init /\ [][NextCopy]_vars

(***************************************************************************)
(* Stock updates and product creates followed by the low-stock listings,   *)
(* one request at a time                                                   *)
(***************************************************************************)
LowStockInputs ==
  {Request(PATCH_INVENTORY, Bearer(ManagerToken), id, [stock |-> Num(n)]) :
     id \in {"prod_001", "prod_003", "prod_" \o ToString(ClockStart)},
     n \in {0, 5, 10, 11}}
  \cup {Request(POST_PRODUCTS, Bearer(AdminToken), "", body) :
          body \in {NewProductBody, [NewProductBody EXCEPT !.stock = Num(0)]}}
  \cup {Request(GET_PRODUCTS_LOW_STOCK, Bearer(ViewerToken), "", <<>>),
        Request(GET_REPORT_LOW_STOCK, Bearer(ManagerToken), "", <<>>),
        Request(GET_INVENTORY_SUMMARY, Bearer(ViewerToken), "", <<>>)}

ReceiveLowStock(r) ==
  /\ \A s \in Slots : req[s].pc = "idle"
  /\ Receive(r, LowStockInputs)

LowStockStep(r) ==
  \/ Authenticate(r)
  \/ Authorize(r)
  \/ updateStock_find(r)
  \/ updateStock_write(r)
  \/ updateStock_log(r)
  \/ updateStock_respond(r)
  \/ createProduct_check(r)
  \/ createProduct_create(r)
  \/ createProduct_respond(r)
  \/ getLowStockProducts(r)
  \/ getInventorySummary(r)
  \/ getLowStockReport(r)
  \/ Finish(r)

NextLowStock ==
  \/ \E r \in Slots : ReceiveLowStock(r)
  \/ \E r \in Slots : LowStockStep(r)

SpecLowStock == Init /\ [][NextLowStock]_vars

(***************************************************************************)
(* Product creates, deletes and reads by id, one request at a time         *)
(***************************************************************************)
DeleteIdInputs == {"prod_001", "nonexistent-id", "prod_" \o ToString(ClockStart)}

DeleteInputs ==
  {Request(DELETE_PRODUCTS, Bearer(AdminToken), id, <<>>) : id \in DeleteIdInputs}
  \cup {Request(GET_PRODUCT, Bearer(ViewerToken), id, <<>>) : id \in DeleteIdInputs}
  \cup {Request(POST_PRODUCTS, Bearer(AdminToken), "", body) :
          body \in {NewProductBody, [NewProductBody EXCEPT !.sku = Str("DX15-2025")]}}

ReceiveDelete(r) ==
  /\ \A s \in Slots : req[s].pc = "idle"
  /\ Receive(r, DeleteInputs)

DeleteStep(r) ==
  \/ Authenticate(r)
  \/ Authorize(r)
  \/ createProduct_check(r)
  \/ createProduct_create(r)
  \/ createProduct_respond(r)
  \/ deleteProduct_find(r)
  \/ deleteProduct_delete(r)
  \/ deleteProduct_respond(r)
  \/ getProductById(r)
  \/ Finish(r)

NextDelete ==
  \/ Tick
  \/ \E r \in Slots : ReceiveDelete(r)
  \/ \E r \in Slots : DeleteStep(r)

SpecDelete == Init /\ [][NextDelete]_vars

(***************************************************************************)
(* Registrations in flight together: they interleave at their awaits, of   *)
(* which hashPassword waits for the thread pool                            *)
(***************************************************************************)
RegisterInputs ==
  {Request(POST_REGISTER, Bearer(AdminToken), "", body) : body \in RegisterBodyInputs}
  \cup {Request(POST_REGISTER, Bearer(ManagerToken), "", NewUserBody)}

RegisterStep(r) ==
  \/ Authenticate(r)
  \/ Authorize(r)
  \/ register_check(r)
  \/ register_hash(r)
  \/ register_create(r)
  \/ register_respond(r)
  \/ Finish(r)

NextRegister ==
  \/ Tick
  \/ \E r \in Slots : Receive(r, RegisterInputs)
  \/ \E r \in Slots : RegisterStep(r)

SpecRegister == Init /\ [][NextRegister]_vars

(***************************************************************************)
(* reportLimiter: express-rate-limit in front of the report routes.  The   *)
(* hits of a client are counted in a window of one hour that starts with   *)
(* its first hit; a hit beyond max is answered 429 with the configured     *)
(* message.  In the other specifications a request is taken as admitted by *)
(* the rate limiters.                                                      *)
(***************************************************************************)
windowMinutes == 60
max == 10

\* skip: (req) => process.env.NODE_ENV === 'test'
skip(l) == l.nodeEnv = "test"

\* the store's increment for a client at time t: the limiter afterwards
increment(l, c, t) ==
  LET expired == l.hits[c] = 0 \/ l.resetTime[c] <= t
  IN [l EXCEPT !.hits[c] = (IF expired THEN 0 ELSE @) + 1,
               !.resetTime[c] = IF expired THEN t + windowMinutes ELSE @]

ReportInputs ==
  {[route |-> GET_REPORT_INVENTORY, authorization |-> Bearer(ViewerToken)],
   [route |-> GET_REPORT_LOW_STOCK, authorization |-> Bearer(ManagerToken)],
   [route |-> GET_REPORT_LOW_STOCK, authorization |-> Bearer(ViewerToken)],
   [route |-> GET_REPORT_MOVEMENTS, authorization |-> Bearer(AdminToken)]}

\* a request to a report route arrives from a client
ReceiveReport(r) ==
  /\ \A s \in Slots : req[s].pc = "idle"
  /\ \A s \in 1..(r - 1) : req[s].pc # "idle"
  /\ limiter.reached < MaxReports
  /\ \E q \in ReportInputs, c \in Clients :
       req' = [req EXCEPT ![r] =
                 [IdleReq EXCEPT !.pc = "reportLimiter", !.route = q.route,
                                 !.authorization = q.authorization, !.ip = c]]
  /\ hist' = [hist EXCEPT ![r] = NoHist]
  /\ limiter' = [limiter EXCEPT !.reached = @ + 1]
  /\ UNCHANGED <<products, logs, now, check, users, heap, held>>

\* router.use(reportLimiter)
reportLimiter(r) ==
  /\ req[r].pc = "reportLimiter"
  /\ LET q == req[r]
         counted == increment(limiter, q.ip, now)
     IN IF skip(limiter)
        THEN /\ req' = [req EXCEPT ![r].pc = "authenticate"]
             /\ UNCHANGED limiter
        ELSE IF counted.hits[q.ip] > max
             THEN /\ req' = [req EXCEPT ![r] =
                               Respond(q, 429,
                                 "Too many report requests. Maximum 10 reports per hour allowed.",
                                 Null)]
                  /\ limiter' = [counted EXCEPT !.limited = @ + 1]
             ELSE /\ req' = [req EXCEPT ![r].pc = "authenticate"]
                  /\ limiter' = counted
  /\ UNCHANGED <<products, logs, now, check, users, heap, held>>
  /\ Track(r)

\* an hour passes with no request in flight: the history starts anew
HourPasses ==
  /\ now < ClockStart + MaxHours * windowMinutes
  /\ \A s \in Slots : req[s].pc = "idle"
  /\ now' = now + windowMinutes
  /\ limiter' = [limiter EXCEPT !.reached = 0, !.limited = 0]
  /\ UNCHANGED <<products, logs, req, hist, check, users, heap, held>>

ReportStep(r) ==
  \/ reportLimiter(r)
  \/ Authenticate(r)
  \/ Authorize(r)
  \/ getLowStockReport(r)
  \/ getInventoryReport(r)
  \/ getMovementReport(r)
  \/ Finish(r)

\* the process is started with NODE_ENV set to 'test' (src/tests/setup.ts) or not
InitReports ==
  /\ products = SeedProducts
  /\ logs = SeedLogs
  /\ now = ClockStart
  /\ req = [r \in Slots |-> IdleReq]
  /\ hist = [r \in Slots |-> NoHist]
  /\ check = NoCheck
  /\ users = SeedUsers
  /\ heap = SeedHeap
  /\ held = NoHeld
  /\ \E nodeEnv \in {"test", "production"} : limiter = NoLimiter(nodeEnv)

NextReports ==
  \/ Tick
  \/ HourPasses
  \/ \E r \in Slots : ReceiveReport(r)
  \/ \E r \in Slots : ReportStep(r)

SpecReports == InitReports /\ [][NextReports]_vars

(***************************************************************************)
(* The paginated listings under every page and limit, one request at a     *)
(* time, between stock updates and product creates                         *)
(***************************************************************************)
PageInputs == {"1", "2", "3", "0", "-1", "abc"}
LimitInputs == {"2", "3", "0", "-2", "2abc"}

\* the query strings: page and limit given or not
PageQueries ==
  {<<>>}
  \cup {[page |-> pg] : pg \in PageInputs}
  \cup {[limit |-> lm] : lm \in LimitInputs}
  \cup {[page |-> pg, limit |-> lm] : pg \in PageInputs, lm \in LimitInputs}

PagesInputs ==
  {Request(route, Bearer(ViewerToken), "", <<>>) @@ [query |-> query] :
     route \in {GET_PRODUCTS, GET_LOGS}, query \in PageQueries}
  \cup {Request(GET_PRODUCTS, Bearer(ViewerToken), "", <<>>)
          @@ [query |-> [category |-> "ELECTRONICS", page |-> pg, limit |-> "1"]] :
          pg \in {"1", "2", "3"}}
  \cup {Request(GET_LOGS, Bearer(ViewerToken), "", <<>>)
          @@ [query |-> [productId |-> "prod_001", page |-> pg, limit |-> "2"]] :
          pg \in {"1", "2"}}
  \cup {Request(PATCH_INVENTORY, Bearer(ManagerToken), "prod_001", [stock |-> Num(7)]),
        Request(POST_PRODUCTS, Bearer(AdminToken), "", NewProductBody)}

ReceivePages(r) ==
  /\ \A s \in Slots : req[s].pc = "idle"
  /\ Receive(r, PagesInputs)

PagesStep(r) ==
  \/ Authenticate(r)
  \/ Authorize(r)
  \/ getAllProducts(r)
  \/ getInventoryLogs_find(r)
  \/ getInventoryLogs_respond(r)
  \/ updateStock_find(r)
  \/ updateStock_write(r)
  \/ updateStock_log(r)
  \/ updateStock_respond(r)
  \/ createProduct_check(r)
  \/ createProduct_create(r)
  \/ createProduct_respond(r)
  \/ Finish(r)

NextPages ==
  \/ \E r \in Slots : ReceivePages(r)
  \/ \E r \in Slots : PagesStep(r)

SpecPages == Init /\ [][NextPages]_vars

(***************************************************************************)
(* The movement report for every days parameter, one request at a time,    *)
(* between stock updates, while the clock advances                         *)
(***************************************************************************)
DaysInputs == {"1", "30", "60", "90", "0", "-1", "abc"}

MovementInputs ==
  {Request(GET_REPORT_MOVEMENTS, Bearer(ManagerToken), "", <<>>)}
  \cup {Request(GET_REPORT_MOVEMENTS, Bearer(ManagerToken), "", <<>>)
          @@ [query |-> [days |-> d]] : d \in DaysInputs}
  \cup {Request(PATCH_INVENTORY, Bearer(ManagerToken), "prod_001", [stock |-> Num(7)])}

ReceiveMovement(r) ==
  /\ \A s \in Slots : req[s].pc = "idle"
  /\ Receive(r, MovementInputs)

\* more than a day passes
DayPasses ==
  /\ now + 24 * 60 + 1 <= ClockStart + MaxDays * (24 * 60 + 1)
  /\ now' = now + 24 * 60 + 1
  /\ UNCHANGED <<products, logs, req, hist, check, users, heap, held, limiter>>

MovementStep(r) ==
  \/ Authenticate(r)
  \/ Authorize(r)
  \/ getMovementReport(r)
  \/ updateStock_find(r)
  \/ updateStock_write(r)
  \/ updateStock_log(r)
  \/ updateStock_respond(r)
  \/ Finish(r)

NextMovement ==
  \/ Tick
  \/ DayPasses
  \/ \E r \in Slots : ReceiveMovement(r)
  \/ \E r \in Slots : MovementStep(r)

SpecMovement == Init /\ [][NextMovement]_vars

(***************************************************************************)
(* Stock values that are not whole numbers.  In this specification every   *)
(* quantity (stock, minStock, previousStock, newStock, quantity) is        *)
(* counted in halves, so that a JSON number such as 2.5 is a value: 5.     *)
(* The handlers only compare, subtract and copy quantities, which is the   *)
(* same in halves as in units.                                             *)
(***************************************************************************)
ProductInHalves(p) == [p EXCEPT !.stock = 2 * @, !.minStock = 2 * @]

LogInHalves(l) ==
  [l EXCEPT !.previousStock = 2 * @, !.newStock = 2 * @, !.quantity = 2 * @]

\* the seeded stores, quantities in halves
InitHalves ==
  /\ products = [i \in 1..Len(SeedProducts) |-> ProductInHalves(SeedProducts[i])]
  /\ logs = [i \in 1..Len(SeedLogs) |-> LogInHalves(SeedLogs[i])]
  /\ now = ClockStart
  /\ req = [r \in Slots |-> IdleReq]
  /\ hist = [r \in Slots |-> NoHist]
  /\ check = NoCheck
  /\ users = SeedUsers
  /\ heap = SeedHeap
  /\ held = NoHeld
  /\ limiter = NoLimiter("production")

\* stock in halves: 2.5, 7, 0, -0.5 and -1
HalvesStockInputs == {5, 14, 0, -1, -2}

HalvesInputs ==
  {Request(PATCH_INVENTORY, Bearer(ManagerToken), "prod_001", [stock |-> Num(h)]) :
     h \in HalvesStockInputs}
  \cup {Request(PUT_PRODUCTS, Bearer(AdminToken), "prod_003", [stock |-> Num(h)]) :
          h \in {1, 4, -1}}
  \cup {Request(PUT_PRODUCTS, Bearer(AdminToken), "prod_003",
                [sku |-> Str("OC-2026"), stock |-> Num(3)])}
  \cup {Request(POST_PRODUCTS, Bearer(AdminToken), "",
                [NewProductBody EXCEPT !.stock = Num(h)]) :
          h \in {3, 8, -3}}

ReceiveHalves(r) ==
  /\ \A s \in Slots : req[s].pc = "idle"
  /\ Receive(r, HalvesInputs)

HalvesStep(r) ==
  \/ Authenticate(r)
  \/ Authorize(r)
  \/ updateStock_find(r)
  \/ updateStock_write(r)
  \/ updateStock_log(r)
  \/ updateStock_respond(r)
  \/ createProduct_check(r)
  \/ createProduct_create(r)
  \/ createProduct_respond(r)
  \/ updateProduct_find(r)
  \/ updateProduct_check(r)
  \/ updateProduct_update(r)
  \/ updateProduct_respond(r)
  \/ Finish(r)

NextHalves ==
  \/ Tick
  \/ \E r \in Slots : ReceiveHalves(r)
  \/ \E r \in Slots : HalvesStep(r)

SpecHalves == InitHalves /\ [][NextHalves]_vars

(***************************************************************************)
(* Stock updates on several products, in flight at once                    *)
(***************************************************************************)
PairInputs ==
  {Request(PATCH_INVENTORY, Bearer(ManagerToken), "prod_001", [stock |-> Num(7)]),
   Request(PATCH_INVENTORY, Bearer(AdminToken), "prod_001", [stock |-> Num(0)]),
   Request(PATCH_INVENTORY, Bearer(AdminToken), "prod_002",
           [stock |-> Num(9), reason |-> Str("restock")]),
   Request(PATCH_INVENTORY, Bearer(ManagerToken), "prod_003", [stock |-> Num(25)])}

PairStep(r) ==
  \/ Authenticate(r)
  \/ Authorize(r)
  \/ updateStock_find(r)
  \/ updateStock_write(r)
  \/ updateStock_log(r)
  \/ updateStock_respond(r)
  \/ Finish(r)

NextPair ==
  \/ Tick
  \/ \E r \in Slots : Receive(r, PairInputs)
  \/ \E r \in Slots : PairStep(r)

SpecPair == Init /\ [][NextPair]_vars

(***************************************************************************)
(* Properties                                                              *)
(***************************************************************************)
\* whether ps holds a product with this _id, and that product's stock
Has(ps, id) == \E i \in 1..Len(ps) : ps[i]._id = id
StockOf(ps, id) == ps[CHOOSE i \in 1..Len(ps) : ps[i]._id = id].stock

\* the entries of lg for one product, in the order they were appended
EntriesFor(lg, id) ==
  LET ForProduct(e) == e.productId = id IN SelectSeq(lg, ForProduct)

\* the stock value a request body asks for
RequestedStock(body) ==
  IF body.stock.k = "num" THEN body.stock.n ELSE StringToNumber(body.stock.s)

\* a body the stock update accepts
ValidStockBody(body) ==
  /\ "stock" \in DOMAIN body
  /\ body.stock.k = "num" \/ NumericString(body.stock.s)
  /\ RequestedStock(body) >= 0
  /\ "reason" \in DOMAIN body => body.reason.k = "str" /\ body.reason.s # ""

\* Viewer(1) < Manager(2) < Admin(3)
Rank(role) == CASE role = VIEWER -> 1 [] role = MANAGER -> 2 [] role = ADMIN -> 3

\* the lowest role the access table admits to a route
RequiredRank(route) ==
  CASE route = PATCH_INVENTORY -> Rank(MANAGER)
    [] route = GET_LOGS -> Rank(VIEWER)
    [] OTHER -> Rank(ADMIN)

TokenOK(q) == q.authorization.k = "bearer" /\ q.authorization.token.valid
RoleOK(q) == Rank(q.authorization.token.payload.role) >= RequiredRank(q.route)

C8_HasRoleIsRankOrder ==
  check.fn = "hasRole" =>
    check.result = (Rank(check.userRole) >= Rank(check.requiredRoles[1]))

C8_Witness ==
  /\ check.fn = "hasRole"
  /\ check.userRole = MANAGER /\ check.requiredRoles = <<MANAGER>>
  /\ check.result = TRUE

\* C9: hasAnyRole(actual, set) is true exactly when actual reaches the rank of some
\* role of the set, that is of the lowest role of the set; requireViewerOrHigher
\* admits every role and requireManagerOrAdmin admits exactly Manager and Admin.
C9_HasAnyRoleIsLowestRole ==
  /\ check.fn = "hasAnyRole" =>
       /\ check.result =
            (\E i \in 1..Len(check.requiredRoles) :
               Rank(check.userRole) >= Rank(check.requiredRoles[i]))
       /\ check.requiredRoles # <<>> =>
            \E i \in 1..Len(check.requiredRoles) :
              /\ \A j \in 1..Len(check.requiredRoles) :
                   Rank(check.requiredRoles[i]) <= Rank(check.requiredRoles[j])
              /\ check.result = (Rank(check.userRole) >= Rank(check.requiredRoles[i]))
  /\ check.fn = "requireViewerOrHigher" => check.result = TRUE
  /\ check.fn = "requireManagerOrAdmin" =>
       check.result = (check.userRole \in {MANAGER, ADMIN})

C9_Witness ==
  /\ check.fn = "hasAnyRole"
  /\ check.userRole = MANAGER /\ check.requiredRoles = <<ADMIN, MANAGER>>
  /\ check.result = TRUE

\* C10: a request without a valid bearer token is answered 401 and goes no further;
\* an authenticated request whose role does not satisfy the route is answered 403
\* 'Insufficient permissions'; only an authenticated and authorized request reaches
\* the handler; no step of a rejected request changes a store.
C10_RequestAuthorization ==
  \A r \in Slots :
    LET q == req[r]
        h == hist[r]
    IN /\ q.pc = "authenticate" => ~h.entered /\ q.res = NoRes
       /\ q.pc = "authorize" =>
            /\ TokenOK(q) /\ ~h.entered /\ q.res = NoRes
            /\ q.user.role = q.authorization.token.payload.role
       /\ q.pc = "handler" => TokenOK(q) /\ RoleOK(q) /\ ~h.entered /\ q.res = NoRes
       /\ q.pc \notin {"idle", "authenticate", "authorize", "handler", "done"} =>
            TokenOK(q) /\ RoleOK(q) /\ h.entered
       /\ q.pc = "done" =>
            /\ ~TokenOK(q) => q.res.status = 401
            /\ (TokenOK(q) /\ ~RoleOK(q)) =>
                 q.res.status = 403 /\ q.res.message = "Insufficient permissions"
            /\ (TokenOK(q) /\ RoleOK(q)) => h.entered /\ q.res.status \notin {401, 403}
            /\ q.res.status \in {401, 403} => ~h.entered /\ ~h.wrote

C10_Witness ==
  \E r \in Slots :
    /\ req[r].pc = "done" /\ req[r].route = PATCH_INVENTORY
    /\ TokenOK(req[r]) /\ req[r].user.role = VIEWER
    /\ req[r].res.status = 403
    /\ Len(logs) > Len(SeedLogs)

\* the roles the README access table gives a route
ReadmeAccess(route) ==
  CASE route \in {POST_PRODUCTS, PUT_PRODUCTS, DELETE_PRODUCTS, POST_REGISTER} -> {ADMIN}
    [] route \in {PATCH_INVENTORY, GET_REPORT_LOW_STOCK, GET_REPORT_MOVEMENTS} ->
         {MANAGER, ADMIN}
    [] route \in {GET_PRODUCTS, GET_PRODUCTS_LOW_STOCK, GET_PRODUCT, GET_INVENTORY,
                  GET_INVENTORY_SUMMARY, GET_LOGS, GET_REPORT_INVENTORY} ->
         {VIEWER, MANAGER, ADMIN}

\* ps and qs hold the same products, up to stock and updatedAt
SameUpToStock(ps, qs) ==
  /\ Len(ps) = Len(qs)
  /\ \A i \in 1..Len(ps) :
       [ps[i] EXCEPT !.stock = 0, !.updatedAt = 0] = [qs[i] EXCEPT !.stock = 0, !.updatedAt = 0]

\* C11: an authenticated request reaches the handler of a route exactly when its role
\* is one the README access table gives the route; a Viewer's request changes no
\* store, and a Manager's request never creates, updates or deletes a product (it
\* changes at most a product's stock) and never adds a user.
C11_AccessTable ==
  \A r \in Slots :
    LET q == req[r]
        h == hist[r]
    IN (q.pc # "idle" /\ TokenOK(q)) =>
         LET role == q.authorization.token.payload.role
         IN /\ h.entered => role \in ReadmeAccess(q.route)
            /\ q.pc = "done" => (h.entered <=> role \in ReadmeAccess(q.route))
            /\ role = VIEWER => ~h.wrote
            /\ (role = MANAGER /\ h.entered) =>
                 SameUpToStock(products, h.products) /\ users = h.users

C11_Witness ==
  \E r \in Slots :
    /\ req[r].pc = "done" /\ req[r].route = POST_REGISTER
    /\ TokenOK(req[r]) /\ req[r].user.role = MANAGER
    /\ req[r].res.status = 403
    /\ Len(users) > Len(SeedUsers)
    /\ Len(logs) > Len(SeedLogs)

\* the access decision on request r has been made, and it was a rejection
Decided(r) == req[r].pc \notin {"idle", "authenticate", "authorize"}
Rejected(r) == req[r].pc = "done" /\ ~hist[r].entered

\* C12: two requests to the same route whose tokens carry the same role get the same
\* decision, whatever the stores hold when each is decided and whichever requests
\* came before; and up to its decision no step of a request changes a store.
C12_StatelessAuthorization ==
  /\ \A r1 \in Slots, r2 \in Slots :
       (/\ Decided(r1) /\ Decided(r2)
        /\ TokenOK(req[r1]) /\ TokenOK(req[r2])
        /\ req[r1].route = req[r2].route
        /\ req[r1].authorization.token.payload.role
             = req[r2].authorization.token.payload.role) =>
         (Rejected(r1) <=> Rejected(r2))
  /\ \A r \in Slots : (Decided(r) /\ ~hist[r].entered) => ~hist[r].wrote

C12_Witness ==
  \E r1 \in Slots, r2 \in Slots :
    /\ req[r1].route = PATCH_INVENTORY /\ req[r2].route = PATCH_INVENTORY
    /\ req[r1].pc = "done" /\ req[r1].res.status = 200
    /\ req[r1].user.id = "user_manager_001"
    /\ req[r2].pc = "handler" /\ req[r2].user.id = "user_manager_000"
    /\ products # SeedProducts /\ logs # SeedLogs

\* a body the product creation accepts
ValidNewProduct(body) ==
  /\ {"name", "sku", "price", "category", "stock"} \subseteq DOMAIN body
  /\ body.sku.k = "str" /\ body.sku.s # ""
  /\ body.price.k = "num" /\ body.price.n >= 0
  /\ body.stock.k = "num" /\ body.stock.n >= 0

UniqueIds(arr) == \A i, j \in 1..Len(arr) : arr[i]._id = arr[j]._id => i = j

TokenUserId(q) == verifyAccessToken(q.authorization.token).decoded.userId

WarehouseOf(ps, id) ==
  LET p == ProductFindById(ps, id)
  IN IF "warehouseId" \in DOMAIN p THEN p.warehouseId ELSE ""

Count(arr, e) == Cardinality({i \in 1..Len(arr) : arr[i] = e})

SameEntries(a, b) ==
  /\ Len(a) = Len(b)
  /\ \A i \in 1..Len(a) : Count(a, a[i]) = Count(b, a[i])

NewestFirst(arr) ==
  \A i, j \in 1..Len(arr) : i < j => arr[i].timestamp >= arr[j].timestamp

\* at the answer of GET /inventory/logs: the entries the listing is to hold
Listed(r) ==
  IF "productId" \in DOMAIN req[r].query
  THEN EntriesFor(logs, req[r].query.productId)
  ELSE logs

AtTimestamp(arr, t) ==
  LET At(e) == e.timestamp = t IN SelectSeq(arr, At)

HeldValues ==
  IF held.kind = "log" THEN LogValues(heap, held.objs)
  ELSE ProductValues(heap, held.objs)

\* the stores hold what the store operations wrote, whatever the caller did
\* to the values it was returned
StoresUntouchedByCaller ==
  /\ LogValues(heap, heap.logs) = logs
  /\ ProductValues(heap, heap.products) = products

\* what the caller holds and has not changed is what it was returned
HeldUntouchedByStore == ~held.mutated => HeldValues = held.seen

C19_CopyOnRead == StoresUntouchedByCaller /\ HeldUntouchedByStore

(***************************************************************************)
(* C21: a product appears in the low-stock listing (findLowStock, GET      *)
(* /products/low-stock, the low-stock report, the summary's                *)
(* lowStockProducts count) exactly when its stock is <= its minStock, a    *)
(* missing minStock counting as 0; so right after a stock update to a      *)
(* value at or below minStock the product is listed, and after an update   *)
(* to a value above minStock it is not.                                    *)
(***************************************************************************)
IsLow(p) == p.stock <= (IF "minStock" \in DOMAIN p THEN p.minStock ELSE 0)

LowIndices == {i \in 1..Len(products) : IsLow(products[i])}

C21_LowStockListing ==
  \A r \in Slots :
    (req[r].pc = "done" /\ req[r].res.status = 200)
    => LET data == req[r].res.data
       IN /\ req[r].route = GET_PRODUCTS_LOW_STOCK
             => /\ Len(data) = Cardinality(LowIndices)
                /\ \A i \in 1..Len(products) :
                     IsLow(products[i])
                       <=> \E k \in 1..Len(data) : data[k] = products[i]
          /\ req[r].route = GET_REPORT_LOW_STOCK
             => /\ Len(data) = Cardinality(LowIndices)
                /\ \A i \in 1..Len(products) :
                     IsLow(products[i])
                       <=> \E k \in 1..Len(data) :
                             /\ data[k].sku = products[i].sku
                             /\ data[k].product = products[i].name
                             /\ data[k].stock = products[i].stock
          /\ req[r].route = GET_INVENTORY_SUMMARY
             => data.lowStockProducts = Cardinality(LowIndices)

\* prod_003 (minStock 5) was updated to 5, at its minimum, and prod_001
\* (minStock 10) to 11, above it: the listing holds the first, not the second
C21_Witness ==
  \E r \in Slots :
    /\ req[r].pc = "done" /\ req[r].route = GET_PRODUCTS_LOW_STOCK
    /\ req[r].res.status = 200
    /\ StockOf(products, "prod_003") = 5
    /\ StockOf(products, "prod_001") = 11
    /\ \E k \in 1..Len(req[r].res.data) : req[r].res.data[k]._id = "prod_003"
    /\ \A k \in 1..Len(req[r].res.data) : req[r].res.data[k]._id # "prod_001"

(***************************************************************************)
(* C22: deleting a product succeeds (200) exactly when a product with that *)
(* id exists; afterwards no read finds that id (GET answers 404) and every *)
(* other product is unchanged; deleting an id that does not exist answers  *)
(* 404 and changes nothing.  delete removes the first product of that id   *)
(* only, and create can give two products one id.                          *)
(***************************************************************************)
Without(ps, id) == LET Other(p) == p._id # id IN SelectSeq(ps, Other)

BodyValue(v) == IF v.k = "num" THEN v.n ELSE v.s

ValidUpdateBody(body) ==
  /\ \A f \in DOMAIN body : f \in DOMAIN updateProductSchema
  /\ \A f \in DOMAIN body \cap {"price", "stock", "minStock"} :
       body[f].k = "num" /\ body[f].n >= 0
  /\ \A f \in DOMAIN body \ {"price", "stock", "minStock"} :
       body[f].k = "str" /\ body[f].s # ""

\* ps and qs differ at most in the first product of this id
OthersUnchanged(ps, qs, id) ==
  /\ Len(ps) = Len(qs)
  /\ \A i \in 1..Len(ps) : i # FindIndexById(ps, id) => qs[i] = ps[i]

\* new is old with the fields of body written; the fields in kept that the
\* body does not name are as they were
Merged(old, new, body, kept) ==
  /\ DOMAIN new = DOMAIN old \cup DOMAIN body
  /\ \A f \in DOMAIN body : new[f] = BodyValue(body[f])
  /\ \A f \in kept \ DOMAIN body : new[f] = old[f]

EmailTaken(us, email) == \E i \in 1..Len(us) : us[i].email = email

C25_ReportRateLimit ==
  (/\ limiter.reached > max
   /\ \A r \in Slots : req[r].pc # "reportLimiter")
  => limiter.limited > 0

\* ---- C26 ----
\* the integer a query string asks for
IntegerStrings == {"1", "2", "3", "0", "-1", "-2"}

Requested(query, name, default) ==
  IF name \in DOMAIN query /\ query[name] \in IntegerStrings
  THEN parseInt(query[name]).n
  ELSE default

\* the items of full at the 0-based positions lo .. hi that exist
Positions(full, lo, hi) ==
  SubSeq(full, (IF lo < 0 THEN 0 ELSE lo) + 1,
               IF hi + 1 > Len(full) THEN Len(full) ELSE hi + 1)

\* the full result a listing request selects from
FullResult(q) ==
  IF q.route = GET_PRODUCTS
  THEN IF "category" \in DOMAIN q.query
       THEN ProductFindByCategory(products, q.query.category)
       ELSE products
  ELSE IF "productId" \in DOMAIN q.query
       THEN LogFindByProduct(logs, q.query.productId).result
       ELSE SortNewestFirst(logs)

\* page and limit are given as integers, or not given
AsksIntegers(query) ==
  /\ "page" \in DOMAIN query => query.page \in IntegerStrings
  /\ "limit" \in DOMAIN query => query.limit \in IntegerStrings

PageAsRequested(q) ==
  LET page == Requested(q.query, "page", 1)
      limit == Requested(q.query, "limit", IF q.route = GET_PRODUCTS THEN 10 ELSE 20)
      full == FullResult(q)
  IN /\ q.res.pagination.page = page
     /\ q.res.pagination.limit = limit
     /\ Len(q.res.data) <= limit
     /\ q.res.data = Positions(full, (page - 1) * limit, page * limit - 1)
     /\ q.res.pagination.total = Len(full)
     /\ limit # 0 => q.res.pagination.totalPages = ceil(Len(full), limit)

\* C26: a listing answered for a page and a limit given in the query holds
\* at most limit items, those at positions (page-1)*limit .. page*limit-1 of
\* the full result, and reports the page and limit as requested, the full
\* count as total and ceil(total/limit) as totalPages
C26_Pagination ==
  \A r \in Slots :
    (/\ req[r].pc = "done"
     /\ req[r].route \in {GET_PRODUCTS, GET_LOGS}
     /\ req[r].res.status = 200
     /\ AsksIntegers(req[r].query))
    => PageAsRequested(req[r])

\* ---- C27 ----
\* the rows of the entries of found whose timestamp is at or after t - d days
RowsSince(found, t, d) ==
  LET Since(log) == log.timestamp >= t - d * 24 * 60
      since == SelectSeq(found, Since)
  IN [i \in 1..Len(since) |-> reportRow(since[i])]

\* the movement report is answered in this step
MovementAnswered(r) ==
  /\ req[r].pc = "handler"
  /\ req[r].route = GET_REPORT_MOVEMENTS
  /\ req'[r].pc = "done"

DaysIntegerStrings == {"1", "30", "60", "90", "0", "-1"}

NonNegativeInteger(h) == h >= 0 /\ h % 2 = 0

ProductContents(p) == [p EXCEPT !.updatedAt = 0]
LogContents(e) == [e EXCEPT !.timestamp = 0, !._id = ""]
ProductsContents(ps) == [i \in 1..Len(ps) |-> ProductContents(ps[i])]
LogsContents(lg) == [i \in 1..Len(lg) |-> LogContents(lg[i])]

\* the stores after the stock update of request q has run alone on ps, lg
RunAlone(ps, lg, q) ==
  LET previousStock == StockOf(ps, q.id)
      reason == IF "reason" \in DOMAIN q.body THEN Given(q.body.reason.s) ELSE Undefined
  IN [products |-> ProductUpdateStock(ps, q.id, RequestedStock(q.body), 0).store,
      logs |-> createStockUpdate(lg, q.id, ps[FindIndexById(ps, q.id)].warehouseId,
                                 q.user.id, previousStock,
                                 RequestedStock(q.body), reason, 0).store]

\* the stores after q1 and then q2 have run one after the other from the seed
RunInOrder(q1, q2) ==
  LET first == RunAlone(SeedProducts, SeedLogs, q1)
  IN RunAlone(first.products, first.logs, q2)

\* two stock updates on distinct products have both been answered 200 and
\* are the only updates since the start
PairAnswered(r1, r2) ==
  /\ r1 # r2
  /\ req[r1].pc = "done" /\ req[r2].pc = "done"
  /\ req[r1].route = PATCH_INVENTORY /\ req[r2].route = PATCH_INVENTORY
  /\ req[r1].res.status = 200 /\ req[r2].res.status = 200
  /\ req[r1].id # req[r2].id
  /\ Len(logs) = Len(SeedLogs) + 2
  /\ \A r \in Slots \ {r1, r2} : ~hist[r].wrote

\* the entry request q appended: the last one for its product
OwnEntry(q) ==
  LET own == EntriesFor(logs, q.id) IN own[Len(own)]

SameButStock(p1, p2) ==
  /\ DOMAIN p2 = DOMAIN p1
  /\ \A f \in DOMAIN p1 \ {"stock", "updatedAt"} : p2[f] = p1[f]

====
